---- MODULE Spec2Model ----
(***************************************************************************)
(* The cooperative scheduler (Scheduler.js, kept in the repository under   *)
(* src/packages/react-dom/src/shared/isCustomComponent.js) together with   *)
(* its two host adapters (SchedulerHostConfig.default.js).                 *)
(*                                                                         *)
(* A task callback is user code: the work loop is cut at the call, so that *)
(* the callback can re-enter the scheduler (schedule, cancel), let time    *)
(* pass, then return a continuation, return something else, or throw.     *)
(***************************************************************************)
EXTENDS Integers, Sequences, FiniteSets, TLC

\* ----------------------------------------------------------------- bounds
\* How many tasks unstable_scheduleCallback creates in one behaviour.
MaxTasks == 2
\* How many continuations one task's callbacks return.
MaxCont == 1
\* The clock never passes this instant.
MaxTime == 11000
\* How deep unstable_runWithPriority calls nest.
MaxDepth == 3
\* The clock of the time-slice specification never passes this instant.
MaxYieldTime == 310
\* How many slots an array of children has at most.
MaxChildren == 3
\* How many callbacks scheduleSyncCallback is given in one behaviour.
MaxSync == 3
\* How many continuations one synchronous callback returns.
MaxSyncCont == 1
\* How many times a lazy component's _init is called, and how many times
\* its thenable settles after then() returned.
MaxInit == 4
MaxSettle == 2
\* How many actions are dispatched to the hook's queue and how many times
\* the component renders.
MaxUpdates == 3
MaxRenders == 3
\* How many fibers lie between the fiber that threw and the HostRoot.
MaxAncestors == 2

\* ------------------------------------------------------- program constants
NULL == 0
undefined == -1

ImmediatePriority == 1
UserBlockingPriority == 2
NormalPriority == 3
LowPriority == 4
IdlePriority == 5

maxSigned31BitInt == 1073741823
IMMEDIATE_PRIORITY_TIMEOUT == -1
USER_BLOCKING_PRIORITY_TIMEOUT == 250
NORMAL_PRIORITY_TIMEOUT == 5000
LOW_PRIORITY_TIMEOUT == 10000
IDLE_PRIORITY_TIMEOUT == maxSigned31BitInt

yieldInterval == 5

\* ReactLazy: the payload's _status.
Uninitialized == -1
Pending == 0
Resolved == 1
Rejected == 2
maxYieldInterval == 300

\* The priority levels and the delays (options.delay, undefined when no
\* options are given) the callers pass.
PriorityLevels == {ImmediatePriority, UserBlockingPriority, NormalPriority,
                   LowPriority, IdlePriority}
Delays == {undefined, 0, 2 * yieldInterval}

VARIABLES
  hostConfig,              \* which branch of SchedulerHostConfig was taken
  now,                     \* the host clock, getCurrentTime()
  tasks,                   \* every task object created, by id
  taskQueue,               \* heap array of task ids (ready)
  timerQueue,              \* heap array of task ids (delayed)
  taskIdCounter,
  currentTask,
  currentPriorityLevel,
  isPerformingWork,
  isHostCallbackScheduled,
  isHostTimeoutScheduled,
  scheduledHostCallback,   \* MessageChannel host
  isMessageLoopRunning,
  taskTimeoutID,
  deadline,
  messages,                \* messages posted to the port, not yet delivered
  _callback,               \* setTimeout host
  _timeoutID,
  timers,                  \* pending setTimeout entries, in arming order
  pc,                      \* "idle", or "callback": inside a task callback
  callback,                \* workLoop's local: the function being run
  hasTimeRemaining,        \* workLoop's parameter, given by the host
  previousPriorityLevel,   \* flushWork's local
  ghost,                   \* per task: what happened to it (observation only)
  lastInvoke,              \* the work loop's last decision to call a callback
  lastFlush,               \* how the work loop last stopped (observation only)
  frames,                  \* unstable_runWithPriority activations, innermost last
  lastReturn,              \* what the last unstable_runWithPriority call gave back
  enableIsInputPending,    \* the isInputPending branch of the host was taken
  needsPaint,              \* MessageChannel host, isInputPending branch
  isInputPending,          \* what navigator.scheduling.isInputPending() returns
  lastYield,               \* the last shouldYieldToHost() call and its result
  fibers,                  \* every fiber object, by id; the current children first
  returnFiber,             \* the parent: its child, firstEffect and lastEffect
  newChild,                \* the new description handed to the reconciler
  resultingFirstChild,     \* what reconcileChildFibers returned
  thrown,                  \* the invariant the reconciler raised, if any
  hostChildren,            \* the host parent's child nodes, by their fiber
  shouldTrackSideEffects,  \* reconcileChildFibers (true) or mountChildFibers
  placed,                  \* the placeChild calls of the last reconciliation
  phase,                   \* "render": children reconciled, not yet committed
  syncQueue,               \* SchedulerWithReactIntegration: callbacks to flush
  immediateQueueCallbackNode, \* the Scheduler task that will flush them
  isFlushingSyncQueue,
  immediateTasks,          \* the Scheduler's Immediate tasks, in scheduling order
  syncI,                   \* flushSyncCallbackQueueImpl's local i
  syncCallback,            \* the callback it is inside, if any
  syncGhost,               \* what was scheduled, invoked and thrown (observation only)
  payload,                 \* ReactLazy: the lazy component's _payload
  lazyGhost,               \* loader and _init calls, the last _init's outcome
  updates,                 \* ReactFiberHooks: every Update object, by id
  queue,                   \* the hook's UpdateQueue
  currentHook,             \* the hook of the current fiber
  fiberLanes,              \* the lanes of the fiber and of its alternate
  hookGhost,               \* the actions dispatched, the renders made, the
                           \* lanes of the last render if it committed
  returnPath,              \* ReactFiberThrow: sourceFiber, then its return
                           \* fibers up to the HostRoot
  thrownValue              \* what sourceFiber threw, once throwException ran

vars == <<hostConfig, now, tasks, taskQueue, timerQueue, taskIdCounter,
          currentTask, currentPriorityLevel, isPerformingWork,
          isHostCallbackScheduled, isHostTimeoutScheduled,
          scheduledHostCallback, isMessageLoopRunning, taskTimeoutID, deadline,
          messages, _callback, _timeoutID, timers, pc, callback,
          hasTimeRemaining, previousPriorityLevel, ghost, lastInvoke, lastFlush, frames,
          lastReturn, enableIsInputPending, needsPaint, isInputPending,
          lastYield, fibers, returnFiber, newChild, resultingFirstChild,
          shouldTrackSideEffects, placed, phase, thrown, hostChildren,
          syncQueue, immediateQueueCallbackNode, isFlushingSyncQueue,
          immediateTasks, syncI, syncCallback, syncGhost, payload, lazyGhost,
          updates, queue, currentHook, fiberLanes, hookGhost,
          returnPath, thrownValue>>

\* The scheduler's and the host's mutable state as one value, so that the
\* functions below compose the way the calls do.
\* A function that reads its state argument many times binds it first
\* (s \in {state}), so that the argument is evaluated once.
State ==
  [now |-> now, tasks |-> tasks, taskQueue |-> taskQueue,
   timerQueue |-> timerQueue, taskIdCounter |-> taskIdCounter,
   currentTask |-> currentTask, currentPriorityLevel |-> currentPriorityLevel,
   isPerformingWork |-> isPerformingWork,
   isHostCallbackScheduled |-> isHostCallbackScheduled,
   isHostTimeoutScheduled |-> isHostTimeoutScheduled,
   scheduledHostCallback |-> scheduledHostCallback,
   isMessageLoopRunning |-> isMessageLoopRunning,
   taskTimeoutID |-> taskTimeoutID, deadline |-> deadline,
   messages |-> messages, _callback |-> _callback, _timeoutID |-> _timeoutID,
   timers |-> timers, pc |-> pc, callback |-> callback,
   hasTimeRemaining |-> hasTimeRemaining,
   previousPriorityLevel |-> previousPriorityLevel, ghost |-> ghost,
   lastInvoke |-> lastInvoke, lastFlush |-> lastFlush]

\* The state after a call: every variable takes its value in the state the
\* call returned, which is computed once.
Becomes(state) ==
  \E s \in {state} :
    /\ now' = s.now
    /\ tasks' = s.tasks
    /\ taskQueue' = s.taskQueue
    /\ timerQueue' = s.timerQueue
    /\ taskIdCounter' = s.taskIdCounter
    /\ currentTask' = s.currentTask
    /\ currentPriorityLevel' = s.currentPriorityLevel
    /\ isPerformingWork' = s.isPerformingWork
    /\ isHostCallbackScheduled' = s.isHostCallbackScheduled
    /\ isHostTimeoutScheduled' = s.isHostTimeoutScheduled
    /\ scheduledHostCallback' = s.scheduledHostCallback
    /\ isMessageLoopRunning' = s.isMessageLoopRunning
    /\ taskTimeoutID' = s.taskTimeoutID
    /\ deadline' = s.deadline
    /\ messages' = s.messages
    /\ _callback' = s._callback
    /\ _timeoutID' = s._timeoutID
    /\ timers' = s.timers
    /\ pc' = s.pc
    /\ callback' = s.callback
    /\ hasTimeRemaining' = s.hasTimeRemaining
    /\ previousPriorityLevel' = s.previousPriorityLevel
    /\ ghost' = s.ghost
    /\ lastInvoke' = s.lastInvoke
    /\ lastFlush' = s.lastFlush

\* ------------------------------------------------------------ the min heap
\* Negative when task a sorts before task b: sortIndex first, then id.
compare(T, a, b) ==
  LET diff == T[a].sortIndex - T[b].sortIndex
  IN  IF diff # 0 THEN diff ELSE T[a].id - T[b].id

swap(heap, i, j) == [heap EXCEPT ![i] = heap[j], ![j] = heap[i]]

RECURSIVE siftUp(_, _, _)
siftUp(T, heap, i) ==
  IF i > 1 /\ compare(T, heap[i \div 2], heap[i]) > 0
  THEN siftUp(T, swap(heap, i, i \div 2), i \div 2)
  ELSE heap

RECURSIVE siftDown(_, _, _)
siftDown(T, heap, i) ==
  LET l == 2 * i
      r == 2 * i + 1
      n == Len(heap)
  IN  IF l <= n /\ compare(T, heap[l], heap[i]) < 0
      THEN IF r <= n /\ compare(T, heap[r], heap[l]) < 0
           THEN siftDown(T, swap(heap, i, r), r)
           ELSE siftDown(T, swap(heap, i, l), l)
      ELSE IF r <= n /\ compare(T, heap[r], heap[i]) < 0
           THEN siftDown(T, swap(heap, i, r), r)
           ELSE heap

push(T, heap, node) == siftUp(T, Append(heap, node), Len(heap) + 1)

peek(heap) == IF Len(heap) = 0 THEN NULL ELSE heap[1]

pop(T, heap) ==
  IF Len(heap) <= 1
  THEN <<>>
  ELSE siftDown(T, [SubSeq(heap, 1, Len(heap) - 1) EXCEPT ![1] = heap[Len(heap)]], 1)

InHeap(heap) == {heap[i] : i \in 1..Len(heap)}

\* ------------------------------------------------------------ host adapter
MessageChannelHost == "MessageChannel"
SetTimeoutHost == "setTimeout"
NoFn == "null"
FlushWorkFn == "flushWork"

getCurrentTime(s) == s.now

\* The handle setTimeout returns: one no pending timer and no kept handle has.
TimerIdsInUse(s) ==
  {s.timers[i].tid : i \in 1..Len(s.timers)} \cup {s.taskTimeoutID, s._timeoutID}

freshTimerId(s) ==
  CHOOSE n \in 1..(Len(s.timers) + 3) :
    /\ n \notin TimerIdsInUse(s)
    /\ \A m \in 1..(n - 1) : m \in TimerIdsInUse(s)

\* A delay that is NaN or negative counts as 0.
setTimeout(s, fn, ms) ==
  [s EXCEPT !.timers =
     Append(@, [tid |-> freshTimerId(s), fn |-> fn,
                at |-> s.now + (IF ms > 0 THEN ms ELSE 0)])]

clearTimeout(s, id) ==
  [s EXCEPT !.timers = SelectSeq(@, LAMBDA t : t.tid # id)]

requestHostCallback(s, cb) ==
  IF hostConfig = SetTimeoutHost
  THEN IF s._callback # NoFn
       THEN setTimeout(s, "requestHostCallback", 0)
       ELSE setTimeout([s EXCEPT !._callback = cb], "_flushCallback", 0)
  ELSE IF ~s.isMessageLoopRunning
       THEN [s EXCEPT !.scheduledHostCallback = cb,
                      !.isMessageLoopRunning = TRUE,
                      !.messages = @ + 1]
       ELSE [s EXCEPT !.scheduledHostCallback = cb]

requestHostTimeout(s, ms) ==
  IF hostConfig = SetTimeoutHost
  THEN [setTimeout(s, "handleTimeout", ms) EXCEPT !._timeoutID = freshTimerId(s)]
  ELSE [setTimeout(s, "handleTimeout", ms) EXCEPT !.taskTimeoutID = freshTimerId(s)]

cancelHostTimeout(s) ==
  IF hostConfig = SetTimeoutHost
  THEN clearTimeout(s, s._timeoutID)
  ELSE [clearTimeout(s, s.taskTimeoutID) EXCEPT !.taskTimeoutID = -1]

shouldYieldToHost(s) ==
  IF hostConfig = SetTimeoutHost
  THEN FALSE
  ELSE getCurrentTime(s) >= s.deadline

\* ---------------------------------------------------------------- scheduler
\* a <= b as JavaScript evaluates it when b may be undefined.
LessOrEqual(a, b) == b # undefined /\ a <= b

\* a - b, NaN (written undefined) when b is undefined.
Minus(a, b) == IF b = undefined THEN undefined ELSE a - b

\* (variant: the Low and Idle cases exchanged)
timeoutOf_lowAndIdleSwapped(priorityLevel) ==
  CASE priorityLevel = ImmediatePriority -> IMMEDIATE_PRIORITY_TIMEOUT
    [] priorityLevel = UserBlockingPriority -> USER_BLOCKING_PRIORITY_TIMEOUT
    [] priorityLevel = IdlePriority -> LOW_PRIORITY_TIMEOUT
    [] priorityLevel = LowPriority -> IDLE_PRIORITY_TIMEOUT
    [] OTHER -> NORMAL_PRIORITY_TIMEOUT

timeoutOf(priorityLevel) ==
  CASE priorityLevel = ImmediatePriority -> IMMEDIATE_PRIORITY_TIMEOUT
    [] priorityLevel = UserBlockingPriority -> USER_BLOCKING_PRIORITY_TIMEOUT
    [] priorityLevel = IdlePriority -> IDLE_PRIORITY_TIMEOUT
    [] priorityLevel = LowPriority -> LOW_PRIORITY_TIMEOUT
    [] OTHER -> NORMAL_PRIORITY_TIMEOUT

\* (variant: the ready queue keyed by priority level alone)
readySortIndex_byPriority(task) == task.priorityLevel

\* (variant: the ready queue keyed by start time)
readySortIndex_byStartTime(task) == task.startTime

\* The key a task carries in the ready queue.
readySortIndex(task) == task.expirationTime

\* The key a task carries in the delayed queue.
delayedSortIndex(task) == task.startTime

\* (variant: a delayed task is due as soon as its expiration allows)
timerFired_byExpiration(task, currentTime) ==
  LessOrEqual(task.startTime, currentTime)
    \/ LessOrEqual(task.expirationTime, currentTime + yieldInterval)

\* advanceTimers' test that a delayed task is due.
timerFired(task, currentTime) == LessOrEqual(task.startTime, currentTime)

RECURSIVE advanceTimers(_, _)
advanceTimers(state, currentTime) ==
  CHOOSE after \in {(
    LET timer == peek(s.timerQueue)
    IN  IF timer = NULL
        THEN s
        ELSE IF s.tasks[timer].callback = NULL
        THEN advanceTimers([s EXCEPT !.timerQueue = pop(s.tasks, @)], currentTime)
        ELSE IF timerFired(s.tasks[timer], currentTime)
        THEN LET T == [s.tasks EXCEPT ![timer].sortIndex = readySortIndex(s.tasks[timer])]
             IN  advanceTimers(
                   [s EXCEPT !.tasks = T,
                              !.timerQueue = pop(s.tasks, @),
                              !.taskQueue = push(T, @, timer)],
                   currentTime)
        ELSE s
  ) : s \in {state}} : TRUE

handleTimeout(state, currentTime) ==
  CHOOSE after \in {(
    LET s1 == advanceTimers([s EXCEPT !.isHostTimeoutScheduled = FALSE], currentTime)
        firstTimer == peek(s1.timerQueue)
    IN  IF ~s1.isHostCallbackScheduled
        THEN IF peek(s1.taskQueue) # NULL
             THEN requestHostCallback([s1 EXCEPT !.isHostCallbackScheduled = TRUE],
                                      FlushWorkFn)
             ELSE IF firstTimer # NULL
                  THEN requestHostTimeout(
                         s1, Minus(s1.tasks[firstTimer].startTime, currentTime))
                  ELSE s1
        ELSE s1
  ) : s \in {state}} : TRUE

\* unstable_scheduleCallback's start time, from options.delay.
startTimeOf(currentTime, delay) ==
  IF delay # undefined /\ delay > 0
  THEN currentTime + delay
  ELSE currentTime

unstable_scheduleCallback(s, priorityLevel, delay) ==
  LET currentTime == getCurrentTime(s)
      startTime == startTimeOf(currentTime, delay)
      timeout == timeoutOf(priorityLevel)
      expirationTime == startTime + timeout
      id == s.taskIdCounter
      newTask == [id |-> id, callback |-> 1, priorityLevel |-> priorityLevel,
                  startTime |-> startTime, expirationTime |-> expirationTime,
                  sortIndex |-> -1]
      seen == [schedAt |-> currentTime, delay |-> delay, invoked |-> 0,
               fate |-> "pending", early |-> FALSE, errors |-> 0]
      s0 == [s EXCEPT !.taskIdCounter = @ + 1, !.ghost = Append(@, seen)]
  IN  IF startTime > currentTime
      THEN LET T == Append(s.tasks,
                           [newTask EXCEPT !.sortIndex = delayedSortIndex(newTask)])
               s1 == [s0 EXCEPT !.tasks = T, !.timerQueue = push(T, @, id)]
           IN  IF peek(s1.taskQueue) = NULL /\ id = peek(s1.timerQueue)
               THEN IF s1.isHostTimeoutScheduled
                    THEN requestHostTimeout(cancelHostTimeout(s1),
                                            startTime - currentTime)
                    ELSE requestHostTimeout(
                           [s1 EXCEPT !.isHostTimeoutScheduled = TRUE],
                           startTime - currentTime)
               ELSE s1
      ELSE LET T == Append(s.tasks,
                           [newTask EXCEPT !.sortIndex = readySortIndex(newTask)])
               s1 == [s0 EXCEPT !.tasks = T, !.taskQueue = push(T, @, id)]
           IN  IF ~s1.isHostCallbackScheduled /\ ~s1.isPerformingWork
               THEN requestHostCallback(
                      [s1 EXCEPT !.isHostCallbackScheduled = TRUE], FlushWorkFn)
               ELSE s1

\* (variant: the task is marked cancelled but keeps its callback)
unstable_cancelCallback_keepingCallback(s, task) ==
  [s EXCEPT !.ghost[task].fate =
               IF @ = "pending" THEN "cancelled" ELSE @,
            !.ghost[task].early =
               @ \/ (s.ghost[task].invoked = 0 /\ s.tasks[task].callback # NULL)]

unstable_cancelCallback(s, task) ==
  [s EXCEPT !.tasks[task].callback = NULL,
            !.ghost[task].fate =
               IF @ = "pending" THEN "cancelled" ELSE @,
            !.ghost[task].early =
               @ \/ (s.ghost[task].invoked = 0 /\ s.tasks[task].callback # NULL)]

\* Observation: no task callback is running.
NoInvoke ==
  [id |-> NULL, didTimeout |-> FALSE, currentTime |-> 0,
   hasTimeRemaining |-> TRUE, shouldYield |-> FALSE, ready |-> {}]

\* Observation: the work loop did not return yet, or threw.
NoFlush ==
  [returned |-> "none", currentTime |-> 0, now |-> 0, ready |-> {},
   delayed |-> {}, armed |-> <<>>]

\* Observation of a return of workLoop: the value, the queues at that
\* moment and the timers armed on the way out.
observedFlush(s, end, currentTime) ==
  [returned |-> IF end.hasMoreWork THEN "true" ELSE "false",
   currentTime |-> currentTime,
   now |-> s.now,
   ready |-> InHeap(s.taskQueue),
   delayed |-> InHeap(s.timerQueue),
   armed |-> SubSeq(end.state.timers, Len(s.timers) + 1, Len(end.state.timers))]

\* (variant: the timeout is armed for the first delayed task's expiration)
workLoopEnd_byExpiration(s, currentTime) ==
  LET firstTimer == peek(s.timerQueue)
  IN  IF s.currentTask # NULL
      THEN [state |-> s, hasMoreWork |-> TRUE]
      ELSE IF firstTimer # NULL
      THEN [state |-> requestHostTimeout(
                        s, Minus(s.tasks[firstTimer].expirationTime, currentTime)),
            hasMoreWork |-> FALSE]
      ELSE [state |-> s, hasMoreWork |-> FALSE]

\* The tail of workLoop, after the loop: whether ready work remains.
workLoopEnd(state, currentTime) ==
  CHOOSE after \in {(
    LET firstTimer == peek(s.timerQueue)
    IN  IF s.currentTask # NULL
        THEN [state |-> s, hasMoreWork |-> TRUE]
        ELSE IF firstTimer # NULL
        THEN [state |-> requestHostTimeout(
                          s, Minus(s.tasks[firstTimer].startTime, currentTime)),
              hasMoreWork |-> FALSE]
        ELSE [state |-> s, hasMoreWork |-> FALSE]
  ) : s \in {state}} : TRUE

\* flushWork's finally block.
flushWorkFinally(state) ==
  CHOOSE after \in {(
    [s EXCEPT !.currentTask = NULL,
              !.currentPriorityLevel = s.previousPriorityLevel,
              !.isPerformingWork = FALSE,
              !.pc = "idle",
              !.callback = NULL,
              !.hasTimeRemaining = TRUE,
              !.lastInvoke = NoInvoke]
  ) : s \in {state}} : TRUE

\* (variant: an error leaves the host as a finished flush does)
hostAfterFlush_noRearmOnError(s, outcome) ==
  IF hostConfig = SetTimeoutHost
  THEN [s EXCEPT !._callback = NoFn]
  ELSE IF outcome = "more"
       THEN [s EXCEPT !.messages = @ + 1]
       ELSE [s EXCEPT !.isMessageLoopRunning = FALSE,
                      !.scheduledHostCallback = NoFn]

\* (variant: the MessageChannel host posts no message when work remains)
hostAfterFlush_noMessageForMore(s, outcome) ==
  IF hostConfig = SetTimeoutHost
  THEN IF outcome = "throw"
       THEN setTimeout(s, "_flushCallback", 0)
       ELSE [s EXCEPT !._callback = NoFn]
  ELSE IF outcome = "done"
       THEN [s EXCEPT !.isMessageLoopRunning = FALSE,
                      !.scheduledHostCallback = NoFn]
       ELSE IF outcome = "more"
       THEN s
       ELSE [s EXCEPT !.messages = @ + 1]

\* What the host adapter does once flushWork returned or threw:
\* performWorkUntilDeadline (MessageChannel) or _flushCallback (setTimeout).
hostAfterFlush(state, outcome) ==
  CHOOSE after \in {(
    IF hostConfig = SetTimeoutHost
    THEN IF outcome = "throw"
         THEN setTimeout(s, "_flushCallback", 0)
         ELSE [s EXCEPT !._callback = NoFn]
    ELSE IF outcome = "done"
         THEN [s EXCEPT !.isMessageLoopRunning = FALSE,
                        !.scheduledHostCallback = NoFn]
         ELSE [s EXCEPT !.messages = @ + 1]
  ) : s \in {state}} : TRUE

\* (variant: the deadline stops the loop whether or not the task expired)
reachedDeadline_ignoringExpiration(s, task, currentTime) ==
  ~s.hasTimeRemaining \/ shouldYieldToHost(s)

\* workLoop's test to leave the loop with the root task not run.
reachedDeadline(s, task, currentTime) ==
  /\ task.expirationTime > currentTime
  /\ (~s.hasTimeRemaining \/ shouldYieldToHost(s))

\* (variant: the callback is called without being cleared first)
callTaskCallback_keepingCallback(s, task, currentTime) ==
  [s EXCEPT
     !.callback = s.tasks[task].callback,
     !.currentPriorityLevel = s.tasks[task].priorityLevel,
     !.pc = "callback",
     !.ghost[task].invoked = @ + 1,
     !.lastFlush = NoFlush,
     !.lastInvoke =
        [id |-> task,
         didTimeout |-> s.tasks[task].expirationTime <= currentTime,
         currentTime |-> currentTime,
         hasTimeRemaining |-> s.hasTimeRemaining,
         shouldYield |-> shouldYieldToHost(s),
         ready |-> InHeap(s.taskQueue)]]

\* workLoop up to the call of the root task's callback.
callTaskCallback(state, task, currentTime) ==
  CHOOSE after \in {(
    [s EXCEPT
       !.callback = s.tasks[task].callback,
       !.tasks[task].callback = NULL,
       !.currentPriorityLevel = s.tasks[task].priorityLevel,
       !.pc = "callback",
       !.ghost[task].invoked = @ + 1,
       !.lastFlush = NoFlush,
       !.lastInvoke =
          [id |-> task,
           didTimeout |-> s.tasks[task].expirationTime <= currentTime,
           currentTime |-> currentTime,
           hasTimeRemaining |-> s.hasTimeRemaining,
           shouldYield |-> shouldYieldToHost(s),
           ready |-> InHeap(s.taskQueue)]]
  ) : s \in {state}} : TRUE

\* (variant: a finished task is left in the queue)
continuationOrPop_neverPops(s, isFunction) ==
  LET task == s.currentTask
  IN  IF isFunction
      THEN [s EXCEPT !.tasks[task].callback = s.callback + 1,
                     !.ghost[task].fate = "pending"]
      ELSE [s EXCEPT !.ghost[task].fate =
                        IF @ = "pending" THEN "completed" ELSE @]

\* (variant: the task is popped even when it returned a continuation)
continuationOrPop_alwaysPops(s, isFunction) ==
  LET task == s.currentTask
      s0 == IF isFunction
            THEN [s EXCEPT !.tasks[task].callback = s.callback + 1,
                           !.ghost[task].fate = "pending"]
            ELSE [s EXCEPT !.ghost[task].fate =
                              IF @ = "pending" THEN "completed" ELSE @]
  IN  IF task = peek(s0.taskQueue)
      THEN [s0 EXCEPT !.taskQueue = pop(s0.tasks, @)]
      ELSE s0

\* workLoop right after the callback returned: install the continuation, or
\* pop the task if it is still the root.
continuationOrPop(state, isFunction) ==
  CHOOSE after \in {(
    LET task == s.currentTask
    IN  IF isFunction
        THEN [s EXCEPT !.tasks[task].callback = s.callback + 1,
                       !.ghost[task].fate = "pending"]
        ELSE LET s0 == [s EXCEPT !.ghost[task].fate =
                                    IF @ = "pending" THEN "completed" ELSE @]
             IN  IF task = peek(s0.taskQueue)
                 THEN [s0 EXCEPT !.taskQueue = pop(s0.tasks, @)]
                 ELSE s0
  ) : s \in {state}} : TRUE

\* The while loop of workLoop from its test, up to the next call of a task
\* callback (pc becomes "callback") or to the end of the flush.
RECURSIVE workLoop(_, _)
workLoop(state, currentTime) ==
  CHOOSE after \in {(
    LET task == s.currentTask
    IN  IF task = NULL \/ reachedDeadline(s, s.tasks[task], currentTime)
        THEN LET end == workLoopEnd(s, currentTime)
                 seen == observedFlush(s, end, currentTime)
             IN  hostAfterFlush(
                   flushWorkFinally([end.state EXCEPT !.lastFlush = seen]),
                   IF end.hasMoreWork THEN "more" ELSE "done")
        ELSE IF s.tasks[task].callback # NULL
        THEN callTaskCallback(s, task, currentTime)
        ELSE LET q == pop(s.tasks, s.taskQueue)
             IN  workLoop([s EXCEPT !.taskQueue = q, !.currentTask = peek(q)],
                          currentTime)
  ) : s \in {state}} : TRUE

\* flushWork up to the first task callback.
flushWork(state, timeRemaining, initialTime) ==
  CHOOSE after \in {(
    LET s1 == [s EXCEPT !.isHostCallbackScheduled = FALSE,
                        !.hasTimeRemaining = timeRemaining]
        s2 == IF s1.isHostTimeoutScheduled
              THEN cancelHostTimeout([s1 EXCEPT !.isHostTimeoutScheduled = FALSE])
              ELSE s1
        s3 == [s2 EXCEPT !.isPerformingWork = TRUE,
                         !.previousPriorityLevel = s2.currentPriorityLevel]
        s4 == advanceTimers(s3, initialTime)
    IN  workLoop([s4 EXCEPT !.currentTask = peek(s4.taskQueue)], initialTime)
  ) : s \in {state}} : TRUE

\* workLoop from the return of a task callback.
callbackReturned(state, isFunction) ==
  CHOOSE after \in {(
    LET currentTime == getCurrentTime(s)
        s1 == continuationOrPop(s, isFunction)
        s2 == advanceTimers(s1, currentTime)
    IN  workLoop([s2 EXCEPT !.currentTask = peek(s2.taskQueue)], currentTime)
  ) : s \in {state}} : TRUE

\* A task callback throws: nothing in workLoop or flushWork catches it.
callbackThrew(s) ==
  LET task == s.currentTask
      s1 == [s EXCEPT !.ghost[task].fate = "threw",
                      !.ghost[task].errors = @ + 1]
  IN  hostAfterFlush(flushWorkFinally(s1), "throw")

\* No description was handed to the reconciler yet.
NoError == "none"

\* The parent fiber of the children being reconciled: a host component
\* here, of a type other than textarea.
ParentOf(tag, type, mocked) ==
  [child |-> NULL, firstEffect |-> NULL, lastEffect |-> NULL,
   tag |-> tag, type |-> type, mockedRender |-> mocked]

HostParent == ParentOf("HostComponent", "div", FALSE)

NoChild == [kind |-> "none", key |-> "null", type |-> "null", children |-> <<>>]

\* syncQueue when it is null (a callback is never NULL, so no array of
\* callbacks is this one); no synchronous callback is running.
nullQueue == <<NULL>>
NoCallback == [fn |-> NULL, cont |-> 0]

\* No shouldYieldToHost() call was made yet.
NoYield == [called |-> FALSE, value |-> FALSE, pastDeadline |-> FALSE]

\* ------------------------------------------------------------------ actions
\* No synchronous callback was scheduled.
InitSync ==
  /\ syncQueue = nullQueue
  /\ immediateQueueCallbackNode = NULL
  /\ isFlushingSyncQueue = FALSE
  /\ immediateTasks = <<>>
  /\ syncI = 0
  /\ syncCallback = NoCallback
  /\ syncGhost = [scheduled |-> 0, invoked |-> <<>>, threw |-> {}]

\* lazy(ctor) was called: the payload holds the loader; _init was not called.
NoOutcome == [kind |-> "none", value |-> "none"]
lazy == [_status |-> Uninitialized, _result |-> "ctor"]

InitLazy ==
  /\ payload = lazy
  /\ lazyGhost = [ctorCalls |-> 0, ctorReturned |-> 0, inits |-> 0,
                  settles |-> 0, outcome |-> NoOutcome]

\* Lanes are sets of bits; an update's lane is a set of one bit, or NoLane.
NoLanes == {}
NoLane == {}
AllLanes == {"SyncLane", "DefaultLane"}

\* mountReducer(reducer, initialState) was called and the mount committed.
initialState == <<>>

InitHook ==
  /\ updates = <<>>
  /\ queue = [pending |-> NULL, lastRenderedState |-> initialState]
  /\ currentHook = [memoizedState |-> initialState, baseState |-> initialState,
                    baseQueue |-> NULL]
  /\ fiberLanes = NoLanes
  /\ hookGhost = [dispatched |-> <<>>, renders |-> 0, rendered |-> NoLanes]

\* No fiber is being rendered.
NoValue == "none"

InitThrow ==
  /\ returnPath = <<>>
  /\ thrownValue = NoValue

\* The reconciler's modules outside the child reconciler, just loaded.
InitReact == InitSync /\ InitLazy /\ InitHook /\ InitThrow

InitOf(parent) ==
  /\ hostConfig \in {MessageChannelHost, SetTimeoutHost}
  /\ now = 0
  /\ tasks = <<>>
  /\ taskQueue = <<>>
  /\ timerQueue = <<>>
  /\ taskIdCounter = 1
  /\ currentTask = NULL
  /\ currentPriorityLevel = NormalPriority
  /\ isPerformingWork = FALSE
  /\ isHostCallbackScheduled = FALSE
  /\ isHostTimeoutScheduled = FALSE
  /\ scheduledHostCallback = NoFn
  /\ isMessageLoopRunning = FALSE
  /\ taskTimeoutID = -1
  /\ deadline = 0
  /\ messages = 0
  /\ _callback = NoFn
  /\ _timeoutID = NULL
  /\ timers = <<>>
  /\ pc = "idle"
  /\ callback = NULL
  /\ hasTimeRemaining = TRUE
  /\ previousPriorityLevel = NormalPriority
  /\ ghost = <<>>
  /\ lastInvoke = NoInvoke
  /\ lastFlush = NoFlush
  /\ frames = <<>>
  /\ lastReturn = [outcome |-> "none", value |-> "none", handler |-> "none",
                   depth |-> 0]
  /\ enableIsInputPending = FALSE
  /\ needsPaint = FALSE
  /\ isInputPending = FALSE
  /\ lastYield = NoYield
  /\ fibers = <<>>
  /\ returnFiber = parent
  /\ newChild = NoChild
  /\ resultingFirstChild = NULL
  /\ shouldTrackSideEffects = FALSE
  /\ placed = <<>>
  /\ phase = "idle"
  /\ thrown = NoError
  /\ hostChildren = <<>>
  /\ InitReact

Init == InitOf(HostParent)

\* What the scheduler's own operations leave alone.
YieldVars == <<enableIsInputPending, needsPaint, isInputPending, lastYield>>
FiberVars == <<fibers, returnFiber, newChild, resultingFirstChild,
               shouldTrackSideEffects, placed, phase, thrown, hostChildren>>
SyncVars == <<syncQueue, immediateQueueCallbackNode, isFlushingSyncQueue,
              immediateTasks, syncI, syncCallback, syncGhost>>
LazyVars == <<payload, lazyGhost>>
HookVars == <<updates, queue, currentHook, fiberLanes, hookGhost>>
ThrowVars == <<returnPath, thrownValue>>
ReactVars == <<SyncVars, LazyVars, HookVars, ThrowVars>>

Untouched ==
  UNCHANGED <<hostConfig, frames, lastReturn, YieldVars, FiberVars, ReactVars>>

\* User code, at top level or inside a task callback, schedules a task.
ScheduleCallback ==
  /\ taskIdCounter <= MaxTasks
  /\ \E priorityLevel \in PriorityLevels, delay \in Delays :
       Becomes(unstable_scheduleCallback(State, priorityLevel, delay))
  /\ Untouched

\* User code cancels a task it holds, whatever became of it.
CancelCallback ==
  /\ \E task \in 1..Len(tasks) : Becomes(unstable_cancelCallback(State, task))
  /\ Untouched

\* The instants the clock may jump to: the end of the running time slice, a
\* delayed task's start, a ready task's expiration.
TickTargets ==
  (IF pc = "callback" /\ hostConfig = MessageChannelHost /\ now < deadline
   THEN {deadline} ELSE {})
  \cup {tasks[i].startTime : i \in InHeap(timerQueue)}
  \cup {tasks[i].expirationTime : i \in InHeap(taskQueue)}

Tick ==
  /\ \E t \in TickTargets :
       /\ t > now
       /\ t <= MaxTime
       /\ Becomes([State EXCEPT !.now = t])
  /\ Untouched

\* The message event of the MessageChannel host, which calls
\* scheduledHostCallback(timeRemaining, currentTime).
MessageEvent(timeRemaining) ==
  /\ hostConfig = MessageChannelHost
  /\ pc = "idle"
  /\ messages > 0
  /\ LET s == [State EXCEPT !.messages = @ - 1]
         currentTime == getCurrentTime(s)
     IN  IF s.scheduledHostCallback # NoFn
         THEN Becomes(flushWork([s EXCEPT !.deadline = currentTime + yieldInterval],
                                timeRemaining, currentTime))
         ELSE Becomes([s EXCEPT !.isMessageLoopRunning = FALSE])
  /\ Untouched

performWorkUntilDeadline == MessageEvent(TRUE)

\* The pending timer the event loop runs next: the earliest due one.
NextTimer ==
  CHOOSE i \in 1..Len(timers) :
    /\ timers[i].at <= now
    /\ \A j \in 1..Len(timers) :
         timers[j].at <= now =>
           \/ timers[i].at < timers[j].at
           \/ (timers[i].at = timers[j].at /\ i <= j)

TimerDue(fn) ==
  /\ pc = "idle"
  /\ \E i \in 1..Len(timers) : timers[i].at <= now
  /\ timers[NextTimer].fn = fn

WithoutTimer(s) ==
  [s EXCEPT !.timers = SubSeq(@, 1, NextTimer - 1)
                         \o SubSeq(@, NextTimer + 1, Len(@))]

\* The host timeout fires. The MessageChannel host passes the time; the
\* setTimeout host passes no argument.
HandleTimeoutFires ==
  /\ TimerDue("handleTimeout")
  /\ LET s == WithoutTimer(State)
     IN  Becomes(handleTimeout(s, IF hostConfig = SetTimeoutHost
                                  THEN undefined
                                  ELSE getCurrentTime(s)))
  /\ Untouched

\* The setTimeout host's flush, which calls _callback(timeRemaining, currentTime).
FlushTimer(timeRemaining) ==
  /\ TimerDue("_flushCallback")
  /\ LET s == WithoutTimer(State)
     IN  IF s._callback # NoFn
         THEN Becomes(flushWork(s, timeRemaining, getCurrentTime(s)))
         ELSE Becomes(s)
  /\ Untouched

_flushCallback == FlushTimer(TRUE)

\* The setTimeout host's deferred requestHostCallback.
RequestHostCallbackRetry ==
  /\ TimerDue("requestHostCallback")
  /\ Becomes(requestHostCallback(WithoutTimer(State), FlushWorkFn))
  /\ Untouched

\* The running task callback returns a function (a continuation).
CallbackReturnsContinuation ==
  /\ pc = "callback"
  /\ callback <= MaxCont
  /\ Becomes(callbackReturned(State, TRUE))
  /\ Untouched

\* The running task callback returns something that is not a function.
CallbackReturnsOther ==
  /\ pc = "callback"
  /\ Becomes(callbackReturned(State, FALSE))
  /\ Untouched

\* The running task callback throws.
CallbackThrows ==
  /\ pc = "callback"
  /\ Becomes(callbackThrew(State))
  /\ Untouched

Next ==
  \/ ScheduleCallback
  \/ CancelCallback
  \/ Tick
  \/ performWorkUntilDeadline
  \/ HandleTimeoutFires
  \/ _flushCallback
  \/ RequestHostCallbackRetry
  \/ CallbackReturnsContinuation
  \/ CallbackReturnsOther
  \/ CallbackThrows

Spec == Init /\ [][Next]_vars

\* workLoop under either value of its hasTimeRemaining parameter: the host
\* adapters of this repository pass true; the parameter is part of
\* flushWork's signature.
HostCallsFlushWork ==
  \E timeRemaining \in BOOLEAN :
    MessageEvent(timeRemaining) \/ FlushTimer(timeRemaining)

NextBudget ==
  \/ ScheduleCallback
  \/ CancelCallback
  \/ Tick
  \/ HostCallsFlushWork
  \/ HandleTimeoutFires
  \/ RequestHostCallbackRetry
  \/ CallbackReturnsContinuation
  \/ CallbackReturnsOther
  \/ CallbackThrows

SpecBudget == Init /\ [][NextBudget]_vars

\* ------------------------------------------------- unstable_runWithPriority
\* The event handler given to unstable_runWithPriority is user code too: the
\* call is cut between the assignment of the level and the finally block.
ReactImmediatePriority == 99
ReactUserBlockingPriority == 98
ReactNormalPriority == 97
ReactLowPriority == 96
ReactIdlePriority == 95
ReactNoPriority == 90
NoPriority == 0

ReactPriorityLevels ==
  {ReactImmediatePriority, ReactUserBlockingPriority, ReactNormalPriority,
   ReactLowPriority, ReactIdlePriority}

\* What the event handlers return.
HandlerValues == {"a", "b"}

\* The switch at the head of unstable_runWithPriority.
checkedPriorityLevel(priorityLevel) ==
  IF priorityLevel \in PriorityLevels THEN priorityLevel ELSE NormalPriority

reactPriorityToSchedulerPriority(reactPriorityLevel) ==
  CASE reactPriorityLevel = ReactImmediatePriority -> ImmediatePriority
    [] reactPriorityLevel = ReactUserBlockingPriority -> UserBlockingPriority
    [] reactPriorityLevel = ReactNormalPriority -> NormalPriority
    [] reactPriorityLevel = ReactLowPriority -> LowPriority
    [] reactPriorityLevel = ReactIdlePriority -> IdlePriority
    [] OTHER -> NoPriority

unstable_getCurrentPriorityLevel == currentPriorityLevel

\* unstable_runWithPriority up to the call of eventHandler. The frame keeps
\* the local previousPriorityLevel; level is the argument as it was passed.
runWithPriorityEnter(priorityLevel) ==
  /\ frames' = Append(frames, [previousPriorityLevel |-> currentPriorityLevel,
                               level |-> priorityLevel])
  /\ currentPriorityLevel' = checkedPriorityLevel(priorityLevel)

\* (variant: the level is restored after a return only, not in a finally)
restoredPriorityLevel_unlessThrown(frame, threw) ==
  IF threw THEN currentPriorityLevel ELSE frame.previousPriorityLevel

\* The level unstable_runWithPriority's finally block leaves, whether the
\* handler returned or threw.
restoredPriorityLevel(frame, threw) == frame.previousPriorityLevel

\* What unstable_runWithPriority returns when the handler returned value.
returnedValue(value) == value

OtherVars ==
  <<hostConfig, now, tasks, taskQueue, timerQueue, taskIdCounter, currentTask,
    isPerformingWork, isHostCallbackScheduled, isHostTimeoutScheduled,
    scheduledHostCallback, isMessageLoopRunning, taskTimeoutID, deadline,
    messages, _callback, _timeoutID, timers, pc, callback, hasTimeRemaining,
    previousPriorityLevel, ghost, lastInvoke, lastFlush, YieldVars, FiberVars,
    ReactVars>>

\* User code calls Scheduler's unstable_runWithPriority.
RunWithPriority ==
  /\ Len(frames) < MaxDepth
  /\ \E priorityLevel \in PriorityLevels \cup {NoPriority} :
       runWithPriorityEnter(priorityLevel)
  /\ UNCHANGED <<OtherVars, lastReturn>>

\* The reconciler calls its runWithPriority with a React priority level.
ReactRunWithPriority ==
  /\ Len(frames) < MaxDepth
  /\ \E reactPriorityLevel \in ReactPriorityLevels :
       runWithPriorityEnter(reactPriorityToSchedulerPriority(reactPriorityLevel))
  /\ UNCHANGED <<OtherVars, lastReturn>>

\* reactPriorityToSchedulerPriority rejects any other level: nothing runs.
ReactRunWithUnknownPriority ==
  /\ reactPriorityToSchedulerPriority(ReactNoPriority) = NoPriority
  /\ lastReturn' = [outcome |-> "invariant", value |-> "none", handler |-> "none",
                    depth |-> Len(frames)]
  /\ UNCHANGED <<OtherVars, frames, currentPriorityLevel>>

\* The innermost event handler returns a value.
EventHandlerReturns ==
  /\ frames # <<>>
  /\ \E value \in HandlerValues :
       lastReturn' = [outcome |-> "return", value |-> returnedValue(value),
                      handler |-> value, depth |-> Len(frames)]
  /\ currentPriorityLevel' = restoredPriorityLevel(frames[Len(frames)], FALSE)
  /\ frames' = SubSeq(frames, 1, Len(frames) - 1)
  /\ UNCHANGED OtherVars

\* The innermost event handler throws.
EventHandlerThrows ==
  /\ frames # <<>>
  /\ lastReturn' = [outcome |-> "throw", value |-> "none", handler |-> "none",
                    depth |-> Len(frames)]
  /\ currentPriorityLevel' = restoredPriorityLevel(frames[Len(frames)], TRUE)
  /\ frames' = SubSeq(frames, 1, Len(frames) - 1)
  /\ UNCHANGED OtherVars

NextPriority ==
  \/ RunWithPriority
  \/ ReactRunWithPriority
  \/ ReactRunWithUnknownPriority
  \/ EventHandlerReturns
  \/ EventHandlerThrows

SpecPriority == Init /\ [][NextPriority]_vars

\* -------------------------------------------------- the host's time slices
\* shouldYieldToHost of the MessageChannel host when enableIsInputPending is
\* set and navigator.scheduling.isInputPending exists.
shouldYieldToHostIsInputPending(currentTime, sliceDeadline, paint, inputPending) ==
  IF currentTime >= sliceDeadline
  THEN IF paint \/ inputPending
       THEN TRUE
       ELSE currentTime >= maxYieldInterval
  ELSE FALSE

\* shouldYieldToHost of the MessageChannel host otherwise.
shouldYieldToHostPlain(currentTime, sliceDeadline) == currentTime >= sliceDeadline

\* The steps the clock takes between two observations.
YieldSteps == {yieldInterval, maxYieldInterval}

SchedulerVars ==
  <<now, tasks, taskQueue, timerQueue, taskIdCounter, currentTask,
    currentPriorityLevel, isPerformingWork, isHostCallbackScheduled,
    isHostTimeoutScheduled, scheduledHostCallback, isMessageLoopRunning,
    taskTimeoutID, messages, _callback, _timeoutID, timers, pc, callback,
    hasTimeRemaining, previousPriorityLevel, ghost, lastInvoke, lastFlush, frames,
    lastReturn, hostConfig>>

\* The module is loaded in a browser with MessageChannel, with or without
\* the isInputPending branch.
InitYield ==
  /\ hostConfig = MessageChannelHost
  /\ enableIsInputPending \in BOOLEAN
  /\ now = 0
  /\ tasks = <<>>
  /\ taskQueue = <<>>
  /\ timerQueue = <<>>
  /\ taskIdCounter = 1
  /\ currentTask = NULL
  /\ currentPriorityLevel = NormalPriority
  /\ isPerformingWork = FALSE
  /\ isHostCallbackScheduled = FALSE
  /\ isHostTimeoutScheduled = FALSE
  /\ scheduledHostCallback = NoFn
  /\ isMessageLoopRunning = FALSE
  /\ taskTimeoutID = -1
  /\ deadline = 0
  /\ messages = 0
  /\ _callback = NoFn
  /\ _timeoutID = NULL
  /\ timers = <<>>
  /\ pc = "idle"
  /\ callback = NULL
  /\ hasTimeRemaining = TRUE
  /\ previousPriorityLevel = NormalPriority
  /\ ghost = <<>>
  /\ lastInvoke = NoInvoke
  /\ lastFlush = NoFlush
  /\ frames = <<>>
  /\ lastReturn = [outcome |-> "none", value |-> "none", handler |-> "none",
                   depth |-> 0]
  /\ needsPaint = FALSE
  /\ isInputPending = FALSE
  /\ lastYield = NoYield
  /\ fibers = <<>>
  /\ returnFiber = HostParent
  /\ newChild = NoChild
  /\ resultingFirstChild = NULL
  /\ shouldTrackSideEffects = FALSE
  /\ placed = <<>>
  /\ phase = "idle"
  /\ thrown = NoError
  /\ hostChildren = <<>>
  /\ InitReact

\* The clock advances.
YieldTick ==
  /\ \E d \in YieldSteps :
       /\ now + d <= MaxYieldTime
       /\ now' = now + d
  /\ UNCHANGED <<taskQueue, timerQueue, tasks, taskIdCounter, currentTask,
                 currentPriorityLevel, isPerformingWork,
                 isHostCallbackScheduled, isHostTimeoutScheduled,
                 scheduledHostCallback, isMessageLoopRunning, taskTimeoutID,
                 messages, _callback, _timeoutID, timers, pc, callback,
                 hasTimeRemaining, previousPriorityLevel, ghost, lastInvoke, lastFlush,
                 frames, lastReturn, hostConfig, deadline, YieldVars,
                 FiberVars, ReactVars>>

\* A message event begins: performWorkUntilDeadline sets the deadline of the
\* time slice; the event before it ended by clearing needsPaint.
TimeSliceBegins ==
  /\ deadline' = now + yieldInterval
  /\ needsPaint' = FALSE
  /\ UNCHANGED <<now, tasks, taskQueue, timerQueue, taskIdCounter, currentTask,
                 currentPriorityLevel, isPerformingWork,
                 isHostCallbackScheduled, isHostTimeoutScheduled,
                 scheduledHostCallback, isMessageLoopRunning, taskTimeoutID,
                 messages, _callback, _timeoutID, timers, pc, callback,
                 hasTimeRemaining, previousPriorityLevel, ghost, lastInvoke, lastFlush,
                 frames, lastReturn, hostConfig, enableIsInputPending,
                 isInputPending, lastYield, FiberVars, ReactVars>>

\* requestPaint(): sets needsPaint in the isInputPending branch, nothing
\* in the other.
requestPaint ==
  /\ needsPaint' = (enableIsInputPending \/ needsPaint)
  /\ UNCHANGED <<SchedulerVars, deadline, enableIsInputPending, isInputPending,
                 lastYield, FiberVars, ReactVars>>

\* The user touches the page, or the browser hands the input over.
InputChanges ==
  /\ isInputPending' = ~isInputPending
  /\ UNCHANGED <<SchedulerVars, deadline, enableIsInputPending, needsPaint,
                 lastYield, FiberVars, ReactVars>>

\* Scheduler code calls shouldYieldToHost().
CallShouldYieldToHost ==
  /\ lastYield' =
       [called |-> TRUE,
        value |-> IF enableIsInputPending
                  THEN shouldYieldToHostIsInputPending(now, deadline, needsPaint,
                                                       isInputPending)
                  ELSE shouldYieldToHostPlain(now, deadline),
        pastDeadline |-> (now >= deadline)]
  /\ UNCHANGED <<SchedulerVars, deadline, enableIsInputPending, needsPaint,
                 isInputPending, FiberVars, ReactVars>>

NextYield ==
  \/ YieldTick
  \/ TimeSliceBegins
  \/ requestPaint
  \/ InputChanges
  \/ CallShouldYieldToHost

SpecYield == InitYield /\ [][NextYield]_vars

\* ------------------------------------------------------- ChildReconciler
\* Fibers are records in the sequence fibers and are named by their position
\* in it. The key and the elementType of a fiber are strings, null is "null";
\* links between fibers are ids, null is NULL.
nullKey == "null"
nullType == "null"
HostText == "HostText"
HostComponent == "HostComponent"
NoFlags == "NoFlags"
Placement == "Placement"
Deletion == "Deletion"
TheReturnFiber == "returnFiber"
NoReturn == "null"

\* The fibers and the parent as one value, with the log of placeChild calls.
InvalidChild == "Objects are not valid as a React child"
NothingReturned == "Nothing was returned from render"
ClassComponent == "ClassComponent"
FunctionComponent == "FunctionComponent"
ForwardRef == "ForwardRef"
SimpleMemoComponent == "SimpleMemoComponent"
Block == "Block"
HostRoot == "HostRoot"

\* What a ChildReconciler works on: the fibers, the parent, the flag it was
\* made with, the placeChild calls and the invariant it raised.
HeapOf(track) ==
  [fibers |-> fibers, returnFiber |-> returnFiber, placed |-> <<>>,
   thrown |-> NoError, shouldTrackSideEffects |-> track]

Heap == HeapOf(shouldTrackSideEffects)

\* invariant(false, 'Objects are not valid as a React child') unless the
\* parent is a textarea.
throwOnInvalidObjectType(h) ==
  IF h.returnFiber.type # "textarea"
  THEN [h EXCEPT !.thrown = InvalidChild]
  ELSE h

\* createFiber: a fiber with no links, index 0 and no flags.
createFiber(h, tag, key, elementType) ==
  [h |-> [h EXCEPT !.fibers =
            Append(@, [tag |-> tag, key |-> key, elementType |-> elementType,
                       index |-> 0, sibling |-> NULL, return |-> NoReturn,
                       alternate |-> NULL, flags |-> NoFlags,
                       nextEffect |-> NULL])],
   fiber |-> Len(h.fibers) + 1]

createFiberFromText(h) == createFiber(h, HostText, nullKey, nullType)

createFiberFromElement(h, element) ==
  createFiber(h, HostComponent, element.key, element.type)

\* createWorkInProgress: the work-in-progress counterpart of current, which
\* keeps current's tag, key, type, index and sibling and has no flags.
createWorkInProgress(h, current) ==
  [h |-> [h EXCEPT !.fibers =
            Append(@, [h.fibers[current] EXCEPT !.alternate = current,
                                               !.flags = NoFlags,
                                               !.nextEffect = NULL,
                                               !.return = NoReturn])],
   fiber |-> Len(h.fibers) + 1]

\* (variant: a deleted child is flagged but not put on the effect list)
deleteChild_notListed(h, childToDelete) ==
  IF ~h.shouldTrackSideEffects
  THEN h
  ELSE [h EXCEPT !.fibers[childToDelete].nextEffect = NULL,
                 !.fibers[childToDelete].flags = Deletion]

\* (variant: the tail of the effect list points back to its head)
deleteChild_circular(h, childToDelete) ==
  IF ~h.shouldTrackSideEffects
  THEN h
  ELSE LET last == h.returnFiber.lastEffect
           h1 == IF last # NULL
                 THEN [h EXCEPT !.fibers[last].nextEffect = childToDelete,
                                !.returnFiber.lastEffect = childToDelete]
                 ELSE [h EXCEPT !.returnFiber.firstEffect = childToDelete,
                                !.returnFiber.lastEffect = childToDelete]
       IN  [h1 EXCEPT !.fibers[childToDelete].nextEffect =
                        h1.returnFiber.firstEffect,
                      !.fibers[childToDelete].flags = Deletion]

\* (variant: a deleted child is put at the front of the effect list)
deleteChild_atFront(h, childToDelete) ==
  IF ~h.shouldTrackSideEffects
  THEN h
  ELSE LET first == h.returnFiber.firstEffect
           h1 == IF first # NULL
                 THEN [h EXCEPT !.returnFiber.firstEffect = childToDelete]
                 ELSE [h EXCEPT !.returnFiber.firstEffect = childToDelete,
                                !.returnFiber.lastEffect = childToDelete]
       IN  [h1 EXCEPT !.fibers[childToDelete].nextEffect = first,
                      !.fibers[childToDelete].flags = Deletion]

deleteChild(h, childToDelete) ==
  IF ~h.shouldTrackSideEffects
  THEN h
  ELSE LET last == h.returnFiber.lastEffect
           h1 == IF last # NULL
                 THEN [h EXCEPT !.fibers[last].nextEffect = childToDelete,
                                !.returnFiber.lastEffect = childToDelete]
                 ELSE [h EXCEPT !.returnFiber.firstEffect = childToDelete,
                                !.returnFiber.lastEffect = childToDelete]
       IN  [h1 EXCEPT !.fibers[childToDelete].nextEffect = NULL,
                      !.fibers[childToDelete].flags = Deletion]

\* (variant: only the first remaining child is deleted)
deleteRemainingChildren_onlyFirst(h, currentFirstChild) ==
  IF ~h.shouldTrackSideEffects \/ currentFirstChild = NULL
  THEN h
  ELSE deleteChild(h, currentFirstChild)

RECURSIVE deleteRemainingChildren(_, _)
deleteRemainingChildren(h, currentFirstChild) ==
  IF ~h.shouldTrackSideEffects \/ currentFirstChild = NULL
  THEN h
  ELSE deleteRemainingChildren(deleteChild(h, currentFirstChild),
                               h.fibers[currentFirstChild].sibling)

\* The Map existingChildren: its entries in insertion order. A string key and
\* a numeric index never name the same entry.
MapKey(key, index) ==
  IF key # nullKey
  THEN [byIndex |-> FALSE, key |-> key, index |-> 0]
  ELSE [byIndex |-> TRUE, key |-> nullKey, index |-> index]

mapHas(existingChildren, k) ==
  \E i \in 1..Len(existingChildren) : existingChildren[i].k = k

mapSet(existingChildren, k, fiber) ==
  IF mapHas(existingChildren, k)
  THEN [i \in 1..Len(existingChildren) |->
          IF existingChildren[i].k = k
          THEN [k |-> k, fiber |-> fiber]
          ELSE existingChildren[i]]
  ELSE Append(existingChildren, [k |-> k, fiber |-> fiber])

mapGet(existingChildren, k) ==
  IF mapHas(existingChildren, k)
  THEN existingChildren[CHOOSE i \in 1..Len(existingChildren) :
                          existingChildren[i].k = k].fiber
  ELSE NULL

mapDelete(existingChildren, k) ==
  SelectSeq(existingChildren, LAMBDA e : e.k # k)

RECURSIVE mapRemainingChildrenFrom(_, _, _)
mapRemainingChildrenFrom(h, existingChildren, existingChild) ==
  IF existingChild = NULL
  THEN existingChildren
  ELSE mapRemainingChildrenFrom(
         h,
         mapSet(existingChildren,
                MapKey(h.fibers[existingChild].key, h.fibers[existingChild].index),
                existingChild),
         h.fibers[existingChild].sibling)

mapRemainingChildren(h, currentFirstChild) ==
  mapRemainingChildrenFrom(h, <<>>, currentFirstChild)

\* (variant: the clone keeps the index and the sibling of the old fiber)
useFiber_keepingLinks(h, fiber) == createWorkInProgress(h, fiber)

useFiber(h, fiber) ==
  LET clone == createWorkInProgress(h, fiber)
  IN  [clone EXCEPT !.h.fibers[clone.fiber].index = 0,
                    !.h.fibers[clone.fiber].sibling = NULL]

\* created.return = returnFiber, existing.return = returnFiber
withReturn(r) == [r EXCEPT !.h.fibers[r.fiber].return = TheReturnFiber]

\* (variant: a fiber that stays does not advance lastPlacedIndex)
placeChild_keepingLast(h, newFiber, lastPlacedIndex, newIndex) ==
  LET h1 == [h EXCEPT !.fibers[newFiber].index = newIndex]
      current == h1.fibers[newFiber].alternate
      result ==
        IF ~h.shouldTrackSideEffects
        THEN [h |-> h1, lastPlacedIndex |-> lastPlacedIndex]
        ELSE IF current # NULL
        THEN LET oldIndex == h1.fibers[current].index
             IN  IF oldIndex < lastPlacedIndex
                 THEN [h |-> [h1 EXCEPT !.fibers[newFiber].flags = Placement],
                       lastPlacedIndex |-> lastPlacedIndex]
                 ELSE [h |-> h1, lastPlacedIndex |-> lastPlacedIndex]
        ELSE [h |-> [h1 EXCEPT !.fibers[newFiber].flags = Placement],
              lastPlacedIndex |-> lastPlacedIndex]
  IN  [result EXCEPT !.h.placed =
         Append(@, [fiber |-> newFiber, lastPlacedIndex |-> lastPlacedIndex,
                    newIndex |-> newIndex, returned |-> result.lastPlacedIndex])]

\* (variant: the index is set in tracking mode only)
placeChild_indexWhenTracking(h, newFiber, lastPlacedIndex, newIndex) ==
  LET h1 == IF h.shouldTrackSideEffects
            THEN [h EXCEPT !.fibers[newFiber].index = newIndex]
            ELSE h
      current == h1.fibers[newFiber].alternate
      result ==
        IF ~h.shouldTrackSideEffects
        THEN [h |-> h1, lastPlacedIndex |-> lastPlacedIndex]
        ELSE IF current # NULL
        THEN LET oldIndex == h1.fibers[current].index
             IN  IF oldIndex < lastPlacedIndex
                 THEN [h |-> [h1 EXCEPT !.fibers[newFiber].flags = Placement],
                       lastPlacedIndex |-> lastPlacedIndex]
                 ELSE [h |-> h1, lastPlacedIndex |-> oldIndex]
        ELSE [h |-> [h1 EXCEPT !.fibers[newFiber].flags = Placement],
              lastPlacedIndex |-> lastPlacedIndex]
  IN  [result EXCEPT !.h.placed =
         Append(@, [fiber |-> newFiber, lastPlacedIndex |-> lastPlacedIndex,
                    newIndex |-> newIndex, returned |-> result.lastPlacedIndex])]

\* (variant: a moved fiber is recognised by its new index, not its old one)
placeChild_byNewIndex(h, newFiber, lastPlacedIndex, newIndex) ==
  LET h1 == [h EXCEPT !.fibers[newFiber].index = newIndex]
      current == h1.fibers[newFiber].alternate
      result ==
        IF ~h.shouldTrackSideEffects
        THEN [h |-> h1, lastPlacedIndex |-> lastPlacedIndex]
        ELSE IF current # NULL
        THEN IF newIndex < lastPlacedIndex
             THEN [h |-> [h1 EXCEPT !.fibers[newFiber].flags = Placement],
                   lastPlacedIndex |-> lastPlacedIndex]
             ELSE [h |-> h1, lastPlacedIndex |-> newIndex]
        ELSE [h |-> [h1 EXCEPT !.fibers[newFiber].flags = Placement],
              lastPlacedIndex |-> lastPlacedIndex]
  IN  [result EXCEPT !.h.placed =
         Append(@, [fiber |-> newFiber, lastPlacedIndex |-> lastPlacedIndex,
                    newIndex |-> newIndex, returned |-> result.lastPlacedIndex])]

placeChild(h, newFiber, lastPlacedIndex, newIndex) ==
  LET h1 == [h EXCEPT !.fibers[newFiber].index = newIndex]
      current == h1.fibers[newFiber].alternate
      result ==
        IF ~h.shouldTrackSideEffects
        THEN [h |-> h1, lastPlacedIndex |-> lastPlacedIndex]
        ELSE IF current # NULL
        THEN LET oldIndex == h1.fibers[current].index
             IN  IF oldIndex < lastPlacedIndex
                 THEN [h |-> [h1 EXCEPT !.fibers[newFiber].flags = Placement],
                       lastPlacedIndex |-> lastPlacedIndex]
                 ELSE [h |-> h1, lastPlacedIndex |-> oldIndex]
        ELSE [h |-> [h1 EXCEPT !.fibers[newFiber].flags = Placement],
              lastPlacedIndex |-> lastPlacedIndex]
  IN  [result EXCEPT !.h.placed =
         Append(@, [fiber |-> newFiber, lastPlacedIndex |-> lastPlacedIndex,
                    newIndex |-> newIndex, returned |-> result.lastPlacedIndex])]

\* (variant: a single child is never flagged)
placeSingleChild_unflagged(r) == r

placeSingleChild(r) ==
  IF r.h.shouldTrackSideEffects /\ r.h.fibers[r.fiber].alternate = NULL
  THEN [r EXCEPT !.h.fibers[r.fiber].flags = Placement]
  ELSE r

updateTextNode(h, current) ==
  IF current = NULL \/ h.fibers[current].tag # HostText
  THEN withReturn(createFiberFromText(h))
  ELSE withReturn(useFiber(h, current))

\* (variant: an element's fiber is never reused)
updateElement_alwaysCreates(h, current, element) ==
  withReturn(createFiberFromElement(h, element))

updateElement(h, current, element) ==
  IF current # NULL /\ h.fibers[current].elementType = element.type
  THEN withReturn(useFiber(h, current))
  ELSE withReturn(createFiberFromElement(h, element))

\* (variant: appended children are created without their return pointer)
createChild_withoutReturn(h, child) ==
  IF child.kind = "text"
  THEN createFiberFromText(h)
  ELSE IF child.kind = "element"
  THEN createFiberFromElement(h, child)
  ELSE IF child.kind = "object"
  THEN [h |-> throwOnInvalidObjectType(h), fiber |-> NULL]
  ELSE [h |-> h, fiber |-> NULL]

createChild(h, child) ==
  IF child.kind = "text"
  THEN withReturn(createFiberFromText(h))
  ELSE IF child.kind = "element"
  THEN withReturn(createFiberFromElement(h, child))
  ELSE IF child.kind = "object"
  THEN [h |-> throwOnInvalidObjectType(h), fiber |-> NULL]
  ELSE [h |-> h, fiber |-> NULL]

\* (variant: a slot is matched by position alone, whatever the keys)
updateSlot_ignoringKey(h, oldFiber, child) ==
  IF child.kind = "text"
  THEN updateTextNode(h, oldFiber)
  ELSE IF child.kind = "element"
  THEN updateElement(h, oldFiber, child)
  ELSE IF child.kind = "object"
  THEN [h |-> throwOnInvalidObjectType(h), fiber |-> NULL]
  ELSE [h |-> h, fiber |-> NULL]

updateSlot(h, oldFiber, child) ==
  LET key == IF oldFiber # NULL THEN h.fibers[oldFiber].key ELSE nullKey
  IN  IF child.kind = "text"
      THEN IF key # nullKey
           THEN [h |-> h, fiber |-> NULL]
           ELSE updateTextNode(h, oldFiber)
      ELSE IF child.kind = "element"
      THEN IF child.key = key
           THEN updateElement(h, oldFiber, child)
           ELSE [h |-> h, fiber |-> NULL]
      ELSE IF child.kind = "object"
      THEN [h |-> throwOnInvalidObjectType(h), fiber |-> NULL]
      ELSE [h |-> h, fiber |-> NULL]

\* (variant: an element whose key is not in the map falls back on the entry
\* of its slot index)
updateFromMap_byPosition(h, existingChildren, newIdx, child) ==
  IF child.kind = "text"
  THEN updateTextNode(h, mapGet(existingChildren, MapKey(nullKey, newIdx)))
  ELSE IF child.kind = "element"
  THEN updateElement(h,
         IF mapGet(existingChildren, MapKey(child.key, newIdx)) # NULL
         THEN mapGet(existingChildren, MapKey(child.key, newIdx))
         ELSE mapGet(existingChildren, MapKey(nullKey, newIdx)),
         child)
  ELSE IF child.kind = "object"
  THEN [h |-> throwOnInvalidObjectType(h), fiber |-> NULL]
  ELSE [h |-> h, fiber |-> NULL]

\* (variant: the map pass lets an object pass as an empty slot)
updateFromMap_ignoringObjects(h, existingChildren, newIdx, child) ==
  IF child.kind = "text"
  THEN updateTextNode(h, mapGet(existingChildren, MapKey(nullKey, newIdx)))
  ELSE IF child.kind = "element"
  THEN updateElement(h, mapGet(existingChildren, MapKey(child.key, newIdx)), child)
  ELSE [h |-> h, fiber |-> NULL]

updateFromMap(h, existingChildren, newIdx, child) ==
  IF child.kind = "text"
  THEN updateTextNode(h, mapGet(existingChildren, MapKey(nullKey, newIdx)))
  ELSE IF child.kind = "element"
  THEN updateElement(h, mapGet(existingChildren, MapKey(child.key, newIdx)), child)
  ELSE IF child.kind = "object"
  THEN [h |-> throwOnInvalidObjectType(h), fiber |-> NULL]
  ELSE [h |-> h, fiber |-> NULL]

\* The locals of reconcileChildrenArray.
ArrayLocals(h, currentFirstChild) ==
  [h |-> h, resultingFirstChild |-> NULL, previousNewFiber |-> NULL,
   oldFiber |-> currentFirstChild, lastPlacedIndex |-> 0, newIdx |-> 0]

\* (variant: a new fiber replaces the head of the list instead of following
\* the previous one)
appendNewFiber_asHead(st, newFiber) ==
  [st EXCEPT !.resultingFirstChild = newFiber, !.previousNewFiber = newFiber]

\* resultingFirstChild = newFiber, or previousNewFiber.sibling = newFiber;
\* then previousNewFiber = newFiber.
appendNewFiber(st, newFiber) ==
  IF st.previousNewFiber = NULL
  THEN [st EXCEPT !.resultingFirstChild = newFiber,
                  !.previousNewFiber = newFiber]
  ELSE [st EXCEPT !.h.fibers[st.previousNewFiber].sibling = newFiber,
                  !.previousNewFiber = newFiber]

\* (variant: the new fiber joins the list without being placed)
placeAndAppend_unplaced(st, h, newFiber) ==
  appendNewFiber([st EXCEPT !.h = h], newFiber)

placeAndAppend(st, h, newFiber) ==
  LET p == placeChild(h, newFiber, st.lastPlacedIndex, st.newIdx)
  IN  appendNewFiber([st EXCEPT !.h = p.h,
                                !.lastPlacedIndex = p.lastPlacedIndex],
                     newFiber)

\* The first loop: old fibers and new children side by side, until a slot
\* does not match.
RECURSIVE forwardScan(_, _)
forwardScan(st, newChildren) ==
  IF st.oldFiber # NULL /\ st.newIdx < Len(newChildren)
  THEN LET ahead == st.h.fibers[st.oldFiber].index > st.newIdx
           oldFiber == IF ahead THEN NULL ELSE st.oldFiber
           nextOldFiber == IF ahead THEN st.oldFiber
                           ELSE st.h.fibers[st.oldFiber].sibling
           r == updateSlot(st.h, oldFiber, newChildren[st.newIdx + 1])
       IN  IF r.h.thrown # NoError
           THEN [st EXCEPT !.h = r.h]
           ELSE IF r.fiber = NULL
           THEN [st EXCEPT !.oldFiber = IF oldFiber = NULL THEN nextOldFiber
                                        ELSE oldFiber]
           ELSE LET h1 == IF /\ st.h.shouldTrackSideEffects
                             /\ oldFiber # NULL
                             /\ r.h.fibers[r.fiber].alternate = NULL
                          THEN deleteChild(r.h, oldFiber)
                          ELSE r.h
                    st1 == placeAndAppend(st, h1, r.fiber)
                IN  forwardScan([st1 EXCEPT !.oldFiber = nextOldFiber,
                                            !.newIdx = @ + 1],
                                newChildren)
  ELSE st

\* The loop that creates the rest once the old fibers ran out.
RECURSIVE createRest(_, _)
createRest(st, newChildren) ==
  IF st.newIdx < Len(newChildren)
  THEN LET r == createChild(st.h, newChildren[st.newIdx + 1])
           st1 == IF r.fiber = NULL THEN st ELSE placeAndAppend(st, r.h, r.fiber)
       IN  IF r.h.thrown # NoError
           THEN [st EXCEPT !.h = r.h]
           ELSE createRest([st1 EXCEPT !.newIdx = @ + 1], newChildren)
  ELSE st

\* (variant: a reused fiber is left in the map)
consumeFromMap_keeping(h, existingChildren, newFiber, newIdx) == existingChildren

\* existingChildren.delete(...) for a fiber that was reused.
consumeFromMap(h, existingChildren, newFiber, newIdx) ==
  IF h.shouldTrackSideEffects /\ h.fibers[newFiber].alternate # NULL
  THEN mapDelete(existingChildren, MapKey(h.fibers[newFiber].key, newIdx))
  ELSE existingChildren

\* The loop that looks the rest up in the map.
RECURSIVE scanWithMap(_, _, _)
scanWithMap(st, existingChildren, newChildren) ==
  IF st.newIdx < Len(newChildren)
  THEN LET r == updateFromMap(st.h, existingChildren, st.newIdx,
                              newChildren[st.newIdx + 1])
       IN  IF r.h.thrown # NoError
           THEN [st |-> [st EXCEPT !.h = r.h],
                 existingChildren |-> existingChildren]
           ELSE IF r.fiber # NULL
           THEN LET st1 == placeAndAppend(st, r.h, r.fiber)
                IN  scanWithMap([st1 EXCEPT !.newIdx = @ + 1],
                                consumeFromMap(r.h, existingChildren, r.fiber,
                                               st.newIdx),
                                newChildren)
           ELSE scanWithMap([st EXCEPT !.newIdx = @ + 1], existingChildren,
                            newChildren)
  ELSE [st |-> st, existingChildren |-> existingChildren]

\* existingChildren.forEach(child => deleteChild(returnFiber, child))
RECURSIVE deleteEach(_, _, _)
deleteEach(h, existingChildren, i) ==
  IF i > Len(existingChildren)
  THEN h
  ELSE deleteEach(deleteChild(h, existingChildren[i].fiber), existingChildren,
                  i + 1)

reconcileChildrenArray(h, currentFirstChild, newChildren) ==
  LET st == forwardScan(ArrayLocals(h, currentFirstChild), newChildren)
  IN  IF st.h.thrown # NoError
      THEN [h |-> st.h, fiber |-> NULL]
      ELSE IF st.newIdx = Len(newChildren)
      THEN [h |-> deleteRemainingChildren(st.h, st.oldFiber),
            fiber |-> st.resultingFirstChild]
      ELSE IF st.oldFiber = NULL
      THEN LET st1 == createRest(st, newChildren)
           IN  [h |-> st1.h,
                fiber |-> IF st1.h.thrown # NoError THEN NULL
                          ELSE st1.resultingFirstChild]
      ELSE LET m == scanWithMap(st, mapRemainingChildren(st.h, st.oldFiber),
                                newChildren)
           IN  IF m.st.h.thrown # NoError
               THEN [h |-> m.st.h, fiber |-> NULL]
               ELSE [h |-> IF h.shouldTrackSideEffects
                           THEN deleteEach(m.st.h, m.existingChildren, 1)
                           ELSE m.st.h,
                     fiber |-> m.st.resultingFirstChild]

\* (variant: the old head is reused whatever its tag)
reconcileSingleTextNode_anyHead(h, currentFirstChild) ==
  IF currentFirstChild # NULL
  THEN withReturn(useFiber(
         deleteRemainingChildren(h, h.fibers[currentFirstChild].sibling),
         currentFirstChild))
  ELSE withReturn(createFiberFromText(h))

reconcileSingleTextNode(h, currentFirstChild) ==
  IF currentFirstChild # NULL /\ h.fibers[currentFirstChild].tag = HostText
  THEN withReturn(useFiber(
         deleteRemainingChildren(h, h.fibers[currentFirstChild].sibling),
         currentFirstChild))
  ELSE withReturn(createFiberFromText(
         deleteRemainingChildren(h, currentFirstChild)))

\* (variant: the scan goes on past an old fiber with the key and another type)
RECURSIVE reconcileSingleElement_scanningOn(_, _, _)
reconcileSingleElement_scanningOn(h, child, element) ==
  IF child = NULL
  THEN withReturn(createFiberFromElement(h, element))
  ELSE IF /\ h.fibers[child].key = element.key
          /\ h.fibers[child].elementType = element.type
  THEN withReturn(useFiber(
         deleteRemainingChildren(h, h.fibers[child].sibling), child))
  ELSE reconcileSingleElement_scanningOn(deleteChild(h, child),
                                         h.fibers[child].sibling, element)

\* reconcileSingleElement, with child the old fiber the while loop is at.
RECURSIVE reconcileSingleElement(_, _, _)
reconcileSingleElement(h, child, element) ==
  IF child = NULL
  THEN withReturn(createFiberFromElement(h, element))
  ELSE IF h.fibers[child].key = element.key
  THEN IF h.fibers[child].elementType = element.type
       THEN withReturn(useFiber(
              deleteRemainingChildren(h, h.fibers[child].sibling), child))
       ELSE withReturn(createFiberFromElement(
              deleteRemainingChildren(h, child), element))
  ELSE reconcileSingleElement(deleteChild(h, child), h.fibers[child].sibling,
                              element)

\* (variant: a class component is let through like a host parent)
rendersNothing_butClasses(parent) ==
  parent.tag \in {Block, FunctionComponent, ForwardRef, SimpleMemoComponent}

\* The switch on returnFiber.tag for an undefined child: a class component
\* whose render is an auto-mock is let through (development builds), any
\* other class, block, function, forward-ref and simple-memo component
\* raises.
rendersNothing(parent) ==
  \/ parent.tag = ClassComponent /\ ~parent.mockedRender
  \/ parent.tag \in {Block, FunctionComponent, ForwardRef, SimpleMemoComponent}

reconcileChildFibers(h, currentFirstChild, child) ==
  IF child.kind = "element"
  THEN placeSingleChild(reconcileSingleElement(h, currentFirstChild, child))
  ELSE IF child.kind = "text"
  THEN placeSingleChild(reconcileSingleTextNode(h, currentFirstChild))
  ELSE IF child.kind = "array"
  THEN reconcileChildrenArray(h, currentFirstChild, child.children)
  ELSE IF child.kind = "object" /\ throwOnInvalidObjectType(h).thrown # NoError
  THEN [h |-> throwOnInvalidObjectType(h), fiber |-> NULL]
  ELSE IF child.kind = "undefined" /\ rendersNothing(h.returnFiber)
  THEN [h |-> [h EXCEPT !.thrown = NothingReturned], fiber |-> NULL]
  ELSE [h |-> deleteRemainingChildren(h, currentFirstChild), fiber |-> NULL]

\* The descriptions the parent's render hands over: keyed elements (two of
\* the keys come with either type), an element without key, text, and the
\* empty values (null, undefined, booleans), alone or in an array.
Keys == {"a", "b", "c"}
ElementTypes == {"div", "span"}
TypesOf(key) == IF key = "c" THEN {"div"} ELSE ElementTypes

Element(key, type) ==
  [kind |-> "element", key |-> key, type |-> type, children |-> <<>>]
Text == [kind |-> "text", key |-> nullKey, type |-> nullType, children |-> <<>>]
Empty == [kind |-> "empty", key |-> nullKey, type |-> nullType, children |-> <<>>]
ArrayOf(children) ==
  [kind |-> "array", key |-> nullKey, type |-> nullType, children |-> children]

Slots ==
  UNION {{Element(key, type) : type \in TypesOf(key)} : key \in Keys}
  \cup {Element(nullKey, "div"), Text, Empty}

Descriptions ==
  Slots \cup {ArrayOf(children) :
                children \in UNION {[1..n -> Slots] : n \in 0..MaxChildren}}

\* The sibling list that starts at first, as the sequence of its fibers.
RECURSIVE SiblingsFrom(_, _, _)
SiblingsFrom(fs, first, fuel) ==
  IF first = NULL \/ fuel = 0
  THEN <<>>
  ELSE <<first>> \o SiblingsFrom(fs, fs[first].sibling, fuel - 1)

Siblings(fs, first) == SiblingsFrom(fs, first, Len(fs) + 1)

\* Everything but the reconciler's state.
SchedulerAndHostVars == <<SchedulerVars, deadline, YieldVars>>
NotFiberVars == <<SchedulerAndHostVars, ReactVars>>

\* The parent renders: beginWork reconciles its children against the new
\* description, with mountChildFibers on the first render and
\* reconcileChildFibers afterwards.
RenderOf(descriptions) ==
  /\ phase = "idle"
  /\ \E child \in descriptions :
       LET r == reconcileChildFibers(Heap, returnFiber.child, child)
       IN  /\ fibers' = r.h.fibers
           /\ returnFiber' = r.h.returnFiber
           /\ placed' = r.h.placed
           /\ resultingFirstChild' = r.fiber
           /\ newChild' = child
           /\ thrown' = r.h.thrown
  /\ phase' = "render"
  /\ UNCHANGED <<shouldTrackSideEffects, hostChildren, NotFiberVars>>

Render == RenderOf(Descriptions)

\* The work-in-progress children become the current children; the old
\* fibers and the effect list are dropped.
SwitchToCurrent ==
  /\ phase = "render"
  /\ thrown = NoError
  /\ LET chain == Siblings(fibers, resultingFirstChild)
     IN  /\ fibers' = [i \in 1..Len(chain) |->
                         [fibers[chain[i]] EXCEPT
                            !.sibling = IF i < Len(chain) THEN i + 1 ELSE NULL,
                            !.alternate = NULL,
                            !.flags = NoFlags,
                            !.nextEffect = NULL]]
         /\ returnFiber' = [returnFiber EXCEPT
                              !.child = IF chain = <<>> THEN NULL ELSE 1,
                              !.firstEffect = NULL, !.lastEffect = NULL]
  /\ newChild' = NoChild
  /\ resultingFirstChild' = NULL
  /\ placed' = <<>>
  /\ shouldTrackSideEffects' = TRUE
  /\ phase' = "idle"
  /\ UNCHANGED <<thrown, NotFiberVars>>

\* The commit as far as the fibers go, for a parent whose host children are
\* not followed.
Commit == SwitchToCurrent /\ UNCHANGED hostChildren

InitFiber == Init /\ hostConfig = MessageChannelHost

NextFiber == Render \/ Commit

SpecFiber == InitFiber /\ [][NextFiber]_vars

\* The places of the keyed elements of an array, and: no key comes twice
\* among them.
KeyedSlots(children) ==
  {i \in 1..Len(children) :
     children[i].kind = "element" /\ children[i].key # nullKey}

NoKeyTwice(child) ==
  child.kind = "array" =>
    \A i, j \in KeyedSlots(child.children) :
      i # j => child.children[i].key # child.children[j].key

\* ------------------------------------------------ the commit on the host
\* A host child is named by the fiber that owned it when the render began:
\* the current fiber a work-in-progress fiber was cloned from, or the new
\* fiber itself.
stateNode(fs, fiber) ==
  IF fs[fiber].alternate # NULL THEN fs[fiber].alternate ELSE fiber

\* parent.removeChild(child)
removeChild(children, child) ==
  SelectSeq(children, LAMBDA c : c # child)

\* parent.appendChild(child): a child that is in the parent already moves.
appendChild(children, child) == Append(removeChild(children, child), child)

\* parent.insertBefore(child, before); with before not a child of the parent
\* the host raises and nothing is inserted.
insertBefore(children, child, before) ==
  LET rest == removeChild(children, child)
      at == CHOOSE i \in 1..Len(rest) : rest[i] = before
  IN  IF before \notin {rest[i] : i \in 1..Len(rest)}
      THEN children
      ELSE SubSeq(rest, 1, at - 1) \o <<child>> \o SubSeq(rest, at, Len(rest))

\* (variant: the next sibling is taken, placed or not)
getHostSibling_anySibling(fs, fiber) == fs[fiber].sibling

\* getHostSibling under a host parent whose children are host nodes: the
\* next sibling that is not about to be placed, null if there is none.
RECURSIVE getHostSibling(_, _)
getHostSibling(fs, fiber) ==
  LET node == fs[fiber].sibling
  IN  IF node = NULL
      THEN NULL
      ELSE IF fs[node].flags # Placement
      THEN node
      ELSE getHostSibling(fs, node)

\* commitPlacement of a host node, on c = [fibers, children]; the Placement
\* flag is cleared once the node is in.
commitPlacement(c, finishedWork) ==
  LET before == getHostSibling(c.fibers, finishedWork)
      node == stateNode(c.fibers, finishedWork)
  IN  [fibers |-> [c.fibers EXCEPT ![finishedWork].flags = NoFlags],
       children |-> IF before # NULL
                    THEN insertBefore(c.children, node,
                                      stateNode(c.fibers, before))
                    ELSE appendChild(c.children, node)]

\* commitDeletion of a host node.
commitDeletion(c, current) ==
  [c EXCEPT !.children = removeChild(@, current)]

RECURSIVE commitDeletions(_, _, _)
commitDeletions(c, effects, i) ==
  IF i > Len(effects)
  THEN c
  ELSE commitDeletions(commitDeletion(c, effects[i]), effects, i + 1)

RECURSIVE commitPlacements(_, _, _)
commitPlacements(c, chain, k) ==
  IF k > Len(chain)
  THEN c
  ELSE commitPlacements(IF c.fibers[chain[k]].flags = Placement
                        THEN commitPlacement(c, chain[k])
                        ELSE c,
                        chain, k + 1)

\* The old and the new sibling list and the parent's effect list, as
\* sequences of fibers.
OldChildren == Siblings(fibers, returnFiber.child)
Produced == Siblings(fibers, resultingFirstChild)

RECURSIVE EffectsFrom(_, _)
EffectsFrom(first, fuel) ==
  IF first = NULL \/ fuel = 0
  THEN <<>>
  ELSE <<first>> \o EffectsFrom(fibers[first].nextEffect, fuel - 1)

Effects == EffectsFrom(returnFiber.firstEffect, Len(fibers) + 1)

\* The parent's host children after the mutation effects: on the first
\* render the parent is built with all its children appended; afterwards the
\* deletions are committed and then the placements, in the order of the new
\* list.
committedChildren ==
  IF ~shouldTrackSideEffects
  THEN [k \in 1..Len(Produced) |-> stateNode(fibers, Produced[k])]
  ELSE commitPlacements(
         commitDeletions([fibers |-> fibers, children |-> hostChildren],
                         Effects, 1),
         Produced, 1).children

\* The commit with the host: the host children are named by the fibers that
\* own them from now on (0 for a node no current fiber owns).
CommitHost ==
  /\ SwitchToCurrent
  /\ LET owner(node) ==
           IF \E k \in 1..Len(Produced) : stateNode(fibers, Produced[k]) = node
           THEN CHOOSE k \in 1..Len(Produced) :
                  stateNode(fibers, Produced[k]) = node
           ELSE NULL
     IN  hostChildren' = [i \in 1..Len(committedChildren) |->
                            owner(committedChildren[i])]

\* The children of a host parent: host nodes, no key twice.
HostDescriptions == {child \in Descriptions : NoKeyTwice(child)}

RenderHost == RenderOf(HostDescriptions)

NextHost == RenderHost \/ CommitHost

SpecHost == InitFiber /\ [][NextHost]_vars

\* The shapes a child can have, under every kind of parent: besides an
\* element, text and the empty values null and boolean, the value undefined
\* and an object that is no element, array or iterable.
Undefined ==
  [kind |-> "undefined", key |-> nullKey, type |-> nullType, children |-> <<>>]
InvalidObject ==
  [kind |-> "object", key |-> nullKey, type |-> nullType, children |-> <<>>]

ShapeSlots == {Element("a", "div"), Text, Empty, Undefined, InvalidObject}

ShapeDescriptions ==
  ShapeSlots \cup {ArrayOf(children) :
                     children \in UNION {[1..n -> ShapeSlots] :
                                           n \in 0..MaxChildren}}

ParentFibers ==
  {HostParent,
   ParentOf(HostComponent, "textarea", FALSE),
   ParentOf(HostRoot, nullType, FALSE),
   ParentOf(ClassComponent, "Component", FALSE),
   ParentOf(ClassComponent, "Component", TRUE)}
  \cup {ParentOf(tag, "Component", FALSE) :
          tag \in {FunctionComponent, ForwardRef, SimpleMemoComponent, Block}}

RenderShape == RenderOf(ShapeDescriptions)

InitShapes ==
  \E parent \in ParentFibers :
    InitOf(parent) /\ hostConfig = MessageChannelHost

NextShapes == RenderShape \/ Commit

SpecShapes == InitShapes /\ [][NextShapes]_vars

\* ------------------------------------------- the synchronous callback queue
\* SchedulerWithReactIntegration keeps the callbacks of scheduleSyncCallback
\* in syncQueue and flushes them from a Scheduler task of Immediate priority
\* or from flushSyncCallbackQueue. The Scheduler is followed as far as these
\* tasks go: all have Immediate priority, so that they run in the order they
\* were scheduled, and a cancelled or finished task has a null callback.
\* A callback is user code: the flush is cut at the call.
SyncState ==
  [syncQueue |-> syncQueue,
   immediateQueueCallbackNode |-> immediateQueueCallbackNode,
   isFlushingSyncQueue |-> isFlushingSyncQueue,
   immediateTasks |-> immediateTasks,
   i |-> syncI,
   callback |-> syncCallback,
   ghost |-> syncGhost]

BecomesSync(state) ==
  \E q \in {state} :
    /\ syncQueue' = q.syncQueue
    /\ immediateQueueCallbackNode' = q.immediateQueueCallbackNode
    /\ isFlushingSyncQueue' = q.isFlushingSyncQueue
    /\ immediateTasks' = q.immediateTasks
    /\ syncI' = q.i
    /\ syncCallback' = q.callback
    /\ syncGhost' = q.ghost

\* Scheduler_scheduleCallback(Scheduler_ImmediatePriority, fn): the new task
\* is the last one; its node is its position.
Scheduler_scheduleCallback(q, fn) ==
  [q EXCEPT !.immediateTasks = Append(@, [callback |-> fn])]

\* Scheduler_cancelCallback(node): the task stays queued with no callback.
Scheduler_cancelCallback(q, node) ==
  [q EXCEPT !.immediateTasks[node].callback = "null"]

scheduleSyncCallback(q, fn) ==
  IF q.syncQueue = nullQueue
  THEN [Scheduler_scheduleCallback(q, "flushSyncCallbackQueueImpl") EXCEPT
          !.syncQueue = <<fn>>,
          !.immediateQueueCallbackNode = Len(q.immediateTasks) + 1]
  ELSE [q EXCEPT !.syncQueue = Append(@, fn)]

\* array.slice(from), from counted from 0.
slice(array, from) == SubSeq(array, from + 1, Len(array))

\* What the catch block leaves in syncQueue when queue[i] threw.
\* Variant: the callback that threw stays in the queue.
remainingAfterThrow_keepingThrower(callbacks, i) == slice(callbacks, i)

remainingAfterThrow(callbacks, i) == slice(callbacks, i + 1)

\* The for loop at its test: it calls queue[i], or it is over, syncQueue
\* becomes null and the finally block resets the flag. queue is the array
\* syncQueue names, so that callbacks pushed meanwhile are reached.
syncLoop(q) ==
  IF q.i < Len(q.syncQueue)
  THEN [q EXCEPT
          !.callback = [fn |-> q.syncQueue[q.i + 1], cont |-> 0],
          !.ghost.invoked = Append(@, q.syncQueue[q.i + 1])]
  ELSE [q EXCEPT
          !.syncQueue = nullQueue,
          !.isFlushingSyncQueue = FALSE,
          !.callback = NoCallback]

flushSyncCallbackQueueImpl(q) ==
  IF ~q.isFlushingSyncQueue /\ q.syncQueue # nullQueue
  THEN syncLoop([q EXCEPT !.isFlushingSyncQueue = TRUE, !.i = 0])
  ELSE q

flushSyncCallbackQueue(q) ==
  flushSyncCallbackQueueImpl(
    IF q.immediateQueueCallbackNode # NULL
    THEN Scheduler_cancelCallback(
           [q EXCEPT !.immediateQueueCallbackNode = NULL],
           q.immediateQueueCallbackNode)
    ELSE q)

\* callback(isSync) returned null: the do-while ends and the loop goes on.
syncCallbackReturnedNull(q) == syncLoop([q EXCEPT !.i = @ + 1])

\* callback(isSync) returned a function: the do-while calls it.
syncCallbackReturnedCallback(q) == [q EXCEPT !.callback.cont = @ + 1]

\* callback(isSync) threw: the catch block keeps the callbacks after it and
\* schedules flushSyncCallbackQueue; finally resets the flag.
syncCallbackThrew(q) ==
  [Scheduler_scheduleCallback(
     [q EXCEPT !.syncQueue = remainingAfterThrow(@, q.i),
               !.ghost.threw = @ \cup {q.callback.fn}],
     "flushSyncCallbackQueue") EXCEPT
     !.isFlushingSyncQueue = FALSE,
     !.callback = NoCallback]

\* The Scheduler's next task: the first one that still has a callback.
nextImmediateTask(taskList) ==
  IF \E n \in 1..Len(taskList) : taskList[n].callback # "null"
  THEN CHOOSE n \in 1..Len(taskList) :
         /\ taskList[n].callback # "null"
         /\ \A m \in 1..(n - 1) : taskList[m].callback = "null"
  ELSE NULL

NotSyncVars ==
  <<SchedulerAndHostVars, FiberVars, LazyVars, HookVars, ThrowVars>>

\* User code, at top level or inside a callback, schedules a callback.
ScheduleSyncCallback ==
  /\ syncGhost.scheduled < MaxSync
  /\ BecomesSync(scheduleSyncCallback(
       [SyncState EXCEPT !.ghost.scheduled = @ + 1],
       syncGhost.scheduled + 1))
  /\ UNCHANGED NotSyncVars

\* User code, at top level or inside a callback, calls
\* flushSyncCallbackQueue.
FlushSyncCallbackQueue ==
  /\ BecomesSync(flushSyncCallbackQueue(SyncState))
  /\ UNCHANGED NotSyncVars

\* The Scheduler runs its next task, whose callback it sets to null first.
SchedulerRunsImmediateTask ==
  /\ syncCallback = NoCallback
  /\ nextImmediateTask(immediateTasks) # NULL
  /\ LET node == nextImmediateTask(immediateTasks)
         q == [SyncState EXCEPT !.immediateTasks[node].callback = "null"]
     IN  BecomesSync(
           IF immediateTasks[node].callback = "flushSyncCallbackQueue"
           THEN flushSyncCallbackQueue(q)
           ELSE flushSyncCallbackQueueImpl(q))
  /\ UNCHANGED NotSyncVars

SyncCallbackReturnsNull ==
  /\ syncCallback # NoCallback
  /\ BecomesSync(syncCallbackReturnedNull(SyncState))
  /\ UNCHANGED NotSyncVars

SyncCallbackReturnsCallback ==
  /\ syncCallback # NoCallback
  /\ syncCallback.cont < MaxSyncCont
  /\ BecomesSync(syncCallbackReturnedCallback(SyncState))
  /\ UNCHANGED NotSyncVars

SyncCallbackThrows ==
  /\ syncCallback # NoCallback
  /\ BecomesSync(syncCallbackThrew(SyncState))
  /\ UNCHANGED NotSyncVars

NextSync ==
  \/ ScheduleSyncCallback
  \/ FlushSyncCallbackQueue
  \/ SchedulerRunsImmediateTask
  \/ SyncCallbackReturnsNull
  \/ SyncCallbackReturnsCallback
  \/ SyncCallbackThrows

\* The Scheduler runs what is scheduled, and a callback returns or throws.
SyncCallbackEnds == SyncCallbackReturnsNull \/ SyncCallbackThrows

SpecSync ==
  /\ InitFiber
  /\ [][NextSync]_vars
  /\ WF_vars(SchedulerRunsImmediateTask)
  /\ WF_vars(SyncCallbackEnds)

\* ---------------------------------------------------------- lazy components
\* What a module's default export and a rejection's error can be, and what
\* the loader does when called: it throws, or it returns a thenable whose
\* then() calls neither callback, onFulfilled or onRejected before returning.
DefaultExports == {"ComponentA", "ComponentB"}
LoadErrors == {"error1", "error2"}
Loaders ==
  {[kind |-> "throws", value |-> "ctorError"],
   [kind |-> "pending", value |-> "none"]}
  \cup {[kind |-> "fulfilled", value |-> d] : d \in DefaultExports}
  \cup {[kind |-> "rejected", value |-> e] : e \in LoadErrors}

\* The first callback given to thenable.then.
\* Variant: without the test of the status.
onFulfilled_whateverStatus(p, defaultExport) ==
  [_status |-> Resolved, _result |-> defaultExport]

onFulfilled(p, defaultExport) ==
  IF p._status = Pending
  THEN [_status |-> Resolved, _result |-> defaultExport]
  ELSE p

\* The second callback given to thenable.then.
onRejected(p, error) ==
  IF p._status = Pending
  THEN [_status |-> Rejected, _result |-> error]
  ELSE p

\* thenable.then(onFulfilled, onRejected) of the thenable the loader
\* returned.
thenableThen(p, loader) ==
  IF loader.kind = "fulfilled" THEN onFulfilled(p, loader.value)
  ELSE IF loader.kind = "rejected" THEN onRejected(p, loader.value)
  ELSE p

\* lazyInitializer(payload) with a loader that behaves as given: the payload
\* afterwards, what the call returned or threw, and whether the loader was
\* called and returned.
lazyInitializer(p, loader) ==
  LET ctorCalled == p._status = Uninitialized
      ctorThrew == ctorCalled /\ loader.kind = "throws"
      after == IF ctorCalled /\ ~ctorThrew
               THEN thenableThen([_status |-> Pending, _result |-> "thenable"],
                                 loader)
               ELSE p
  IN  [payload |-> after,
       ctorCalled |-> ctorCalled,
       ctorReturned |-> ctorCalled /\ ~ctorThrew,
       outcome |-> IF ctorThrew THEN [kind |-> "throw", value |-> loader.value]
                   ELSE IF after._status = Resolved
                   THEN [kind |-> "return", value |-> after._result]
                   ELSE [kind |-> "throw", value |-> after._result]]

NotLazyVars ==
  <<SchedulerAndHostVars, FiberVars, SyncVars, HookVars, ThrowVars>>

\* The renderer calls lazyType._init(lazyType._payload).
CallInit ==
  /\ lazyGhost.inits < MaxInit
  /\ \E loader \in IF payload._status = Uninitialized
                   THEN Loaders ELSE {CHOOSE l \in Loaders : TRUE} :
       LET r == lazyInitializer(payload, loader)
       IN  /\ payload' = r.payload
           /\ lazyGhost' = [lazyGhost EXCEPT
                              !.inits = @ + 1,
                              !.ctorCalls = IF r.ctorCalled THEN @ + 1 ELSE @,
                              !.ctorReturned =
                                IF r.ctorReturned THEN @ + 1 ELSE @,
                              !.outcome = r.outcome]
  /\ UNCHANGED NotLazyVars

\* The thenable the loader returned settles, for the first time or again.
ThenableFulfills ==
  /\ lazyGhost.ctorReturned > 0
  /\ lazyGhost.settles < MaxSettle
  /\ \E d \in DefaultExports : payload' = onFulfilled(payload, d)
  /\ lazyGhost' = [lazyGhost EXCEPT !.settles = @ + 1]
  /\ UNCHANGED NotLazyVars

ThenableRejects ==
  /\ lazyGhost.ctorReturned > 0
  /\ lazyGhost.settles < MaxSettle
  /\ \E e \in LoadErrors : payload' = onRejected(payload, e)
  /\ lazyGhost' = [lazyGhost EXCEPT !.settles = @ + 1]
  /\ UNCHANGED NotLazyVars

NextLazy == CallInit \/ ThenableFulfills \/ ThenableRejects

SpecLazy == InitFiber /\ [][NextLazy]_vars

\* ------------------------------------------------------ hook update queues
\* One useReducer hook of a mounted component. The reducer appends the
\* action to the state, or leaves the state as it is for the action "same",
\* so that two states are equal only if the same actions were applied in
\* the same order.
Actions == {"a", "b", "same"}

reducer(state, action) ==
  IF action = "same" THEN state ELSE Append(state, action)

isSubsetOfLanes(set, subset) == subset \subseteq set
mergeLanes(a, b) == a \cup b

HookState ==
  [updates |-> updates, queue |-> queue, currentHook |-> currentHook,
   fiberLanes |-> fiberLanes, ghost |-> hookGhost]

BecomesHook(state) ==
  \E h \in {state} :
    /\ updates' = h.updates
    /\ queue' = h.queue
    /\ currentHook' = h.currentHook
    /\ fiberLanes' = h.fiberLanes
    /\ hookGhost' = h.ghost

\* dispatchAction appends the update to the circular list queue.pending
\* names by its last element.
\* Variant: the update is put first in the list.
enqueueUpdate_atFront(us, pending, update) ==
  IF pending = NULL
  THEN [updates |-> Append(us, [update EXCEPT !.next = Len(us) + 1]),
        pending |-> Len(us) + 1]
  ELSE [updates |-> Append([us EXCEPT ![pending].next = Len(us) + 1],
                           [update EXCEPT !.next = us[pending].next]),
        pending |-> pending]

enqueueUpdate(us, pending, update) ==
  IF pending = NULL
  THEN [updates |-> Append(us, [update EXCEPT !.next = Len(us) + 1]),
        pending |-> Len(us) + 1]
  ELSE [updates |-> Append([us EXCEPT ![pending].next = Len(us) + 1],
                           [update EXCEPT !.next = us[pending].next]),
        pending |-> Len(us) + 1]

\* scheduleUpdateOnFiber(fiber, lane, eventTime), as far as the fiber goes:
\* the lane is merged into the lanes of the fiber and of its alternate.
scheduleUpdateOnFiber(h, lane) ==
  [h EXCEPT !.fiberLanes = mergeLanes(@, lane)]

\* dispatchAction(fiber, queue, action) outside the render phase, with the
\* lane requestUpdateLane gave.
dispatchAction(h, action, lane) ==
  LET eager == h.fiberLanes = NoLanes
      eagerState == reducer(h.queue.lastRenderedState, action)
      update == [lane |-> lane, action |-> action,
                 eagerReducer |-> IF eager THEN "reducer" ELSE "null",
                 eagerState |-> IF eager THEN eagerState ELSE <<>>,
                 next |-> NULL]
      e == enqueueUpdate(h.updates, h.queue.pending, update)
      queued == [h EXCEPT !.updates = e.updates, !.queue.pending = e.pending,
                          !.ghost.dispatched = Append(@, action)]
  IN  IF eager /\ eagerState = h.queue.lastRenderedState
      THEN queued
      ELSE scheduleUpdateOnFiber(queued, lane)

\* updateReducer's loop from update on: acc holds the Update objects and
\* the loop's locals.
RECURSIVE updateLoop(_, _, _, _, _)
updateLoop(acc, update, first, renderLanes, fuel) ==
  LET u == acc.updates[update]
      skip == ~isSubsetOfLanes(renderLanes, u.lane)
      cloneId == Len(acc.updates) + 1
      clone == [u EXCEPT !.lane = IF skip THEN u.lane ELSE NoLane,
                         !.next = NULL]
      cloned == skip \/ acc.newBaseQueueLast # NULL
      linked ==
        IF ~cloned THEN acc.updates
        ELSE IF acc.newBaseQueueLast = NULL THEN Append(acc.updates, clone)
        ELSE Append([acc.updates EXCEPT ![acc.newBaseQueueLast].next = cloneId],
                    clone)
      after ==
        [acc EXCEPT
           !.updates = linked,
           !.newBaseQueueFirst =
             IF cloned /\ acc.newBaseQueueLast = NULL THEN cloneId ELSE @,
           !.newBaseQueueLast = IF cloned THEN cloneId ELSE @,
           !.newBaseState =
             IF skip /\ acc.newBaseQueueLast = NULL THEN acc.newState ELSE @,
           !.lanes = IF skip THEN mergeLanes(@, u.lane) ELSE @,
           !.newState =
             IF skip THEN @
             ELSE IF u.eagerReducer = "reducer" THEN u.eagerState
             ELSE reducer(@, u.action)]
  IN  IF u.next # NULL /\ u.next # first /\ fuel > 0
      THEN updateLoop(after, u.next, first, renderLanes, fuel - 1)
      ELSE after

\* updateReducer(reducer) for the hook, rendering renderLanes: what it
\* leaves in the shared objects (the Update objects, the queue and the
\* current hook's baseQueue), and the work-in-progress hook and lanes.
updateReducer(h, renderLanes) ==
  LET baseQueue == h.currentHook.baseQueue
      pendingQueue == h.queue.pending
      merged ==
        IF pendingQueue # NULL /\ baseQueue # NULL
        THEN [h.updates EXCEPT
                ![baseQueue].next = h.updates[pendingQueue].next,
                ![pendingQueue].next = h.updates[baseQueue].next]
        ELSE h.updates
      queueNow == IF pendingQueue # NULL THEN pendingQueue ELSE baseQueue
      end == updateLoop([updates |-> merged,
                         newState |-> h.currentHook.baseState,
                         newBaseState |-> NULL,
                         newBaseQueueFirst |-> NULL,
                         newBaseQueueLast |-> NULL,
                         lanes |-> NoLanes],
                        merged[queueNow].next, merged[queueNow].next,
                        renderLanes, Len(merged))
      closed ==
        IF end.newBaseQueueLast = NULL THEN end.updates
        ELSE [end.updates EXCEPT
                ![end.newBaseQueueLast].next = end.newBaseQueueFirst]
  IN  IF queueNow = NULL
      THEN [updates |-> h.updates, queue |-> h.queue,
            current |-> h.currentHook, hook |-> h.currentHook,
            lanes |-> NoLanes]
      ELSE [updates |-> closed,
            queue |-> [pending |-> NULL, lastRenderedState |-> end.newState],
            current |-> [h.currentHook EXCEPT !.baseQueue = queueNow],
            hook |-> [memoizedState |-> end.newState,
                      baseState |-> IF end.newBaseQueueLast = NULL
                                    THEN end.newState ELSE end.newBaseState,
                      baseQueue |-> end.newBaseQueueLast],
            lanes |-> end.lanes]

NotHookVars ==
  <<SchedulerAndHostVars, FiberVars, SyncVars, LazyVars, ThrowVars>>

\* An event handler calls the hook's dispatch.
DispatchAction ==
  /\ Len(hookGhost.dispatched) < MaxUpdates
  /\ \E action \in Actions, lane \in AllLanes :
       BecomesHook(dispatchAction(HookState, action, {lane}))
  /\ UNCHANGED NotHookVars

\* The component renders at renderLanes and the render commits: the
\* work-in-progress hook and fiber become the current ones.
RenderCommitted ==
  /\ hookGhost.renders < MaxRenders
  /\ \E renderLanes \in (SUBSET AllLanes) \ {NoLanes} :
       LET r == updateReducer(HookState, renderLanes)
       IN  BecomesHook([updates |-> r.updates, queue |-> r.queue,
                        currentHook |-> r.hook, fiberLanes |-> r.lanes,
                        ghost |-> [hookGhost EXCEPT
                                     !.renders = @ + 1,
                                     !.rendered = renderLanes]])
  /\ UNCHANGED NotHookVars

\* The component renders at renderLanes and the render is thrown away: the
\* current hook and fiber stay, with what updateReducer wrote to them and
\* to the queue.
RenderDiscarded ==
  /\ hookGhost.renders < MaxRenders
  /\ \E renderLanes \in (SUBSET AllLanes) \ {NoLanes} :
       LET r == updateReducer(HookState, renderLanes)
       IN  BecomesHook([updates |-> r.updates, queue |-> r.queue,
                        currentHook |-> r.current, fiberLanes |-> fiberLanes,
                        ghost |-> [hookGhost EXCEPT !.renders = @ + 1,
                                                    !.rendered = NoLanes]])
  /\ UNCHANGED NotHookVars

NextHook == DispatchAction \/ RenderCommitted \/ RenderDiscarded

SpecHook == InitFiber /\ [][NextHook]_vars

\* ------------------------------------------------------ throwing in render
\* The fibers throwException walks: the fiber that threw and its return
\* path. A fiber's flags are a set of bits here; a class component's type
\* may define getDerivedStateFromError, its instance (stateNode) may be
\* null, may define componentDidCatch, and may have failed already in this
\* batch (isAlreadyFailedLegacyErrorBoundary).
Incomplete == "Incomplete"
ShouldCapture == "ShouldCapture"
DidCapture == "DidCapture"
CaptureUpdate == "CaptureUpdate"

PathFiber(tag, flags, getDerivedStateFromError, instance, failed, effects) ==
  [tag |-> tag, flags |-> flags,
   getDerivedStateFromError |-> getDerivedStateFromError,
   instance |-> instance, alreadyFailed |-> failed,
   lanes |-> NoLanes, firstEffect |-> effects, lastEffect |-> effects,
   capturedUpdates |-> <<>>]

ClassFibers ==
  {PathFiber(ClassComponent, flags, g, instance, failed, NULL) :
     flags \in {{}, {DidCapture}}, g \in BOOLEAN,
     instance \in {"null", "plain", "componentDidCatch"},
     failed \in BOOLEAN}

\* A fiber between sourceFiber and the root: a class component, or one of
\* the tags throwException passes by.
AncestorFibers ==
  {f \in ClassFibers : f.alreadyFailed => f.instance = "componentDidCatch"}
  \cup {PathFiber(FunctionComponent, {}, FALSE, "null", FALSE, NULL)}

\* The fiber that threw: any of these, with or without flags and effects of
\* its own.
SourceFibers ==
  {PathFiber(FunctionComponent, flags, FALSE, "null", FALSE, effects) :
     flags \in {{}, {Placement}}, effects \in {NULL, 1}}
  \cup {PathFiber(ClassComponent, {}, TRUE, "componentDidCatch", FALSE, NULL)}

HostRootFibers ==
  {PathFiber(HostRoot, flags, FALSE, "plain", FALSE, NULL) :
     flags \in {{}, {DidCapture}}}

RECURSIVE AncestorPaths(_)
AncestorPaths(n) ==
  IF n = 0 THEN {<<>>}
  ELSE LET shorter == AncestorPaths(n - 1)
       IN  shorter \cup {<<f>> \o path : f \in AncestorFibers,
                                          path \in {q \in shorter :
                                                      Len(q) = n - 1}}

ReturnPaths ==
  {<<source>> \o path \o <<root>> :
     source \in SourceFibers, path \in AncestorPaths(MaxAncestors),
     root \in HostRootFibers}

\* What throwException can be given that is not a thenable.
ThrownValues == {"Error", "string", "null"}

\* The test of the ClassComponent case.
\* Variant: a boundary that captured already in this render captures again.
canCapture_again(fiber) ==
  \/ fiber.getDerivedStateFromError
  \/ /\ fiber.instance = "componentDidCatch"
     /\ ~fiber.alreadyFailed

canCapture(fiber) ==
  /\ DidCapture \notin fiber.flags
  /\ \/ fiber.getDerivedStateFromError
     \/ /\ fiber.instance # "null"
        /\ fiber.instance = "componentDidCatch"
        /\ ~fiber.alreadyFailed

\* createRootErrorUpdate and createClassErrorUpdate: the update's tag, lane,
\* and which of payload and callback it has.
createRootErrorUpdate(fiber, errorInfo, lane) ==
  [tag |-> CaptureUpdate, lane |-> lane, error |-> errorInfo,
   payload |-> "element: null", callback |-> "onUncaughtError"]

createClassErrorUpdate(fiber, errorInfo, lane) ==
  [tag |-> CaptureUpdate, lane |-> lane, error |-> errorInfo,
   payload |-> IF fiber.getDerivedStateFromError
               THEN "getDerivedStateFromError" ELSE "null",
   callback |-> IF fiber.instance = "componentDidCatch"
                THEN "componentDidCatch" ELSE "null"]

\* workInProgress.flags |= ShouldCapture, the lane merged into its lanes,
\* and enqueueCapturedUpdate(workInProgress, update).
capture(fiber, update) ==
  [fiber EXCEPT !.flags = @ \cup {ShouldCapture},
                !.lanes = mergeLanes(@, update.lane),
                !.capturedUpdates = Append(@, update)]

\* The do-while of the error branch, with workInProgress the w-th fiber of
\* the path.
RECURSIVE captureFrom(_, _, _, _)
captureFrom(path, w, errorInfo, lane) ==
  IF w > Len(path) THEN path
  ELSE IF path[w].tag = HostRoot
  THEN [path EXCEPT
          ![w] = capture(@, createRootErrorUpdate(@, errorInfo, lane))]
  ELSE IF path[w].tag = ClassComponent /\ canCapture(path[w])
  THEN [path EXCEPT
          ![w] = capture(@, createClassErrorUpdate(@, errorInfo, lane))]
  ELSE captureFrom(path, w + 1, errorInfo, lane)

\* throwException(root, returnFiber, sourceFiber, value, rootRenderLanes)
\* for a value that is not a thenable: sourceFiber is the first fiber of the
\* path and returnFiber the second.
throwException(path, value, rootRenderLanes) ==
  captureFrom([path EXCEPT ![1].flags = @ \cup {Incomplete},
                           ![1].firstEffect = NULL,
                           ![1].lastEffect = NULL],
              2, value, CHOOSE lane \in rootRenderLanes : TRUE)

NotThrowVars == <<SchedulerAndHostVars, FiberVars, SyncVars, LazyVars, HookVars>>

\* A render reaches a fiber of some tree.
BeginWorkReaches ==
  /\ returnPath = <<>>
  /\ \E path \in ReturnPaths : returnPath' = path
  /\ thrownValue' = NoValue
  /\ UNCHANGED NotThrowVars

\* The render that threw is over.
RenderEnds ==
  /\ thrownValue # NoValue
  /\ returnPath' = <<>>
  /\ thrownValue' = NoValue
  /\ UNCHANGED NotThrowVars

\* The fiber throws and handleError calls throwException.
ThrowException ==
  /\ returnPath # <<>>
  /\ thrownValue = NoValue
  /\ \E value \in ThrownValues, lane \in AllLanes :
       /\ returnPath' = throwException(returnPath, value, {lane})
       /\ thrownValue' = value
  /\ UNCHANGED NotThrowVars

NextThrow == BeginWorkReaches \/ ThrowException \/ RenderEnds

SpecThrow == InitFiber /\ [][NextThrow]_vars

\* ================================================================== claims
Tasks == 1..Len(tasks)
Ready == InHeap(taskQueue)
Delayed == InHeap(timerQueue)

\* Task a sorts before task b by (expirationTime, id).
EarlierOrSame(a, b) ==
  \/ tasks[a].expirationTime < tasks[b].expirationTime
  \/ (tasks[a].expirationTime = tasks[b].expirationTime /\ a <= b)

\* C1: whenever workLoop calls a task callback, the task called has the
\* smallest (expirationTime, id) of all tasks in the ready queue at that
\* moment; among equal expiration times the one scheduled first is called.
C1_InvokedIsEarliestReady ==
  pc = "callback" =>
    \A j \in lastInvoke.ready : EarlierOrSame(lastInvoke.id, j)

\* C1 witness: a callback runs while another task with the same expiration
\* time, scheduled later, waits in the ready queue.
C1_Witness_TieInReadyQueue ==
  /\ pc = "callback"
  /\ \E j \in lastInvoke.ready :
       /\ j # lastInvoke.id
       /\ tasks[j].callback # NULL
       /\ tasks[j].expirationTime = tasks[lastInvoke.id].expirationTime

\* A flushWork call returns to the host (it did not throw).
FlushReturns ==
  /\ pc' = "idle"
  /\ \/ CallbackReturnsContinuation
     \/ CallbackReturnsOther
     \/ (scheduledHostCallback # NoFn /\ \E h \in BOOLEAN : MessageEvent(h))
     \/ (_callback # NoFn /\ \E h \in BOOLEAN : FlushTimer(h))

\* C2 (state part): a callback called for a task that has not expired was
\* called with time remaining and with shouldYieldToHost() false, and
\* didTimeout tells whether the task had expired.
C2_StartedWithinBudget ==
  pc = "callback" =>
    /\ lastInvoke.didTimeout =
         (tasks[lastInvoke.id].expirationTime <= lastInvoke.currentTime)
    /\ ~lastInvoke.didTimeout =>
         (lastInvoke.hasTimeRemaining /\ ~lastInvoke.shouldYield)

\* C2 (step part): workLoop never stops in front of an expired root task.
C2_ExpiredRootNotLeft ==
  FlushReturns =>
    (taskQueue' # <<>> => tasks'[taskQueue'[1]].expirationTime > now')

\* C2: in workLoop an expired root task is called, with didTimeout true,
\* even when hasTimeRemaining is false or shouldYieldToHost() is true; a root
\* task that has not expired is never started then, the loop stops instead.
C2_ExpiredRunsRegardless ==
  [](C2_StartedWithinBudget) /\ [][C2_ExpiredRootNotLeft]_vars

\* C2 witness: an expired task's callback runs although the host gave no time
\* and the time slice is over.
C2_Witness_ExpiredPastDeadline ==
  /\ pc = "callback"
  /\ lastInvoke.didTimeout
  /\ lastInvoke.shouldYield
  /\ ~lastInvoke.hasTimeRemaining

\* C3 (state part): a task cancelled before its callback was ever called has
\* never had it called.
C3_CancelledNeverInvoked ==
  \A id \in Tasks : ghost[id].early => ghost[id].invoked = 0

\* C3 (step part): a cancelled task waiting in the delayed queue is never
\* moved to the ready queue, and unstable_cancelCallback itself changes
\* neither queue and starts no callback, whatever state the task is in.
C3_CancelOnlyMarks ==
  /\ \A id \in Tasks :
       (id \in Delayed /\ tasks[id].callback = NULL) => id \notin InHeap(taskQueue')
  /\ CancelCallback =>
       /\ UNCHANGED <<taskQueue, timerQueue, pc, currentTask>>
       /\ \A id \in Tasks : ghost'[id].invoked = ghost[id].invoked

\* C3: a task cancelled before its callback was called never has it called by
\* a later flush: at the root it is popped without a call (from the ready
\* queue by workLoop, from the delayed queue by advanceTimers, which does not
\* promote it); cancelling a task that completed or was popped changes
\* neither queue and calls nothing.
C3_CancelledTaskSkipped ==
  [](C3_CancelledNeverInvoked) /\ [][C3_CancelOnlyMarks]_vars

\* C3 witness: a task cancelled before its first call has been popped, and
\* the other task has been called since.
C3_Witness_CancelledPopped ==
  \E id \in Tasks :
    /\ ghost[id].early
    /\ id \notin Ready \cup Delayed
    /\ \E other \in Tasks : other > id /\ ghost[other].invoked > 0

\* C4 as stated: a task whose callback returned a non-function is no longer
\* in the ready queue once workLoop has moved on.
C4_Original_CompletedLeftQueue ==
  \A id \in Tasks : ghost[id].fate = "completed" => id \notin Ready

\* C4 (state part): once a callback returned a non-function the task has no
\* callback any more.
C4_CompletedHasNoCallback ==
  \A id \in Tasks : ghost[id].fate = "completed" => tasks[id].callback = NULL

\* C4 (step part): a returned continuation becomes the task's callback and
\* the task stays in the ready queue under its expirationTime and sortIndex;
\* after a non-function return the task is popped if it is still the root.
C4_ContinuationKeptElsePopped ==
  /\ CallbackReturnsContinuation =>
       /\ currentTask \in InHeap(taskQueue')
       /\ tasks'[currentTask].expirationTime = tasks[currentTask].expirationTime
       /\ tasks'[currentTask].sortIndex = tasks[currentTask].sortIndex
       /\ \/ tasks'[currentTask].callback = callback + 1
          \/ (pc' = "callback" /\ currentTask' = currentTask
              /\ callback' = callback + 1)
  /\ CallbackReturnsOther =>
       /\ tasks'[currentTask].callback = NULL
       /\ (currentTask = peek(taskQueue) => currentTask \notin InHeap(taskQueue'))

\* C4 (amended): when a task callback returns a function, workLoop installs
\* it as the task's callback and leaves the task in the ready queue with its
\* expirationTime and sortIndex; when it returns a non-function, the task
\* keeps a null callback and is popped at once only if it is still the root
\* of the ready queue: if the callback scheduled a task that sorts before it,
\* it stays in the heap until it reaches the root.
C4_ContinuationOrPopIfRoot ==
  [](C4_CompletedHasNoCallback) /\ [][C4_ContinuationKeptElsePopped]_vars

\* C4 witness: a completed task is still in the ready queue while the
\* callback of the task it scheduled runs.
C4_Witness_CompletedStillQueued ==
  /\ pc = "callback"
  /\ \E id \in Tasks :
       /\ ghost[id].fate = "completed"
       /\ id \in Ready
       /\ id # currentTask

\* Some task in the ready queue still has a callback to run.
LiveReady == \E id \in Ready : tasks[id].callback # NULL

\* The host will call flushWork again: a message is on its way to
\* performWorkUntilDeadline, or a _flushCallback timer is pending.
FlushArmed ==
  IF hostConfig = SetTimeoutHost
  THEN /\ _callback = FlushWorkFn
       /\ \E i \in 1..Len(timers) : timers[i].fn = "_flushCallback"
  ELSE /\ scheduledHostCallback = FlushWorkFn
       /\ messages > 0

\* The setTimeout host has deferred a requestHostCallback(flushWork).
FlushDeferred ==
  /\ hostConfig = SetTimeoutHost
  /\ \E i \in 1..Len(timers) : timers[i].fn = "requestHostCallback"

\* C5 (state): between host events, a ready queue that holds a task with a
\* callback always has a call of flushWork on its way.
C5_QueuedWorkHasFlushArmed ==
  (pc = "idle" /\ LiveReady) => (FlushArmed \/ FlushDeferred)

\* C5 (step): when a task callback throws, the ready queue and every other
\* task are left as they were, and the host is armed to call flushWork again.
C5_ThrowKeepsQueueAndRearms ==
  CallbackThrows =>
    /\ taskQueue' = taskQueue
    /\ timerQueue' = timerQueue
    /\ \A id \in Tasks : id # currentTask => tasks'[id] = tasks[id]
    /\ FlushArmed'

C6_ThrownOnce ==
  \A id \in Tasks :
    ghost[id].fate = "threw" =>
      (tasks[id].callback = NULL /\ ghost[id].errors = 1)

\* C6 (step part): no step calls the callback of a task that threw.
C6_NoCallAfterThrow ==
  \A id \in Tasks :
    ghost[id].fate = "threw" => ghost'[id].invoked = ghost[id].invoked

\* C6: a task whose callback throws is not retried: no later flush calls its
\* callback again, and the error leaves flushWork once for that task.
C6_ThrownTaskNotRetried == [](C6_ThrownOnce) /\ [][C6_NoCallAfterThrow]_vars

\* C6 witness: a task that threw has been popped by a later flush, which
\* called the other task.
C6_Witness_ThrownThenPopped ==
  \E id \in Tasks :
    /\ ghost[id].fate = "threw"
    /\ id \notin Ready
    /\ \E other \in Tasks : other # id /\ ghost[other].fate = "completed"

\* C7: a task scheduled with a delay > 0 is never called, and never in the
\* ready queue, while the clock is before its startTime: until then it is in
\* the delayed queue under sortIndex = startTime, and in the ready queue its
\* sortIndex is its expirationTime.
C7_DelayedNotBeforeStart ==
  \A id \in Tasks :
    /\ (ghost[id].invoked > 0 \/ id \in Ready) => tasks[id].startTime <= now
    /\ (tasks[id].startTime > now /\ tasks[id].callback # NULL) =>
         (id \in Delayed /\ tasks[id].sortIndex = tasks[id].startTime)
    /\ id \in Ready => tasks[id].sortIndex = tasks[id].expirationTime
    /\ ~(id \in Ready /\ id \in Delayed)

\* C7 witness: a task scheduled with a delay has been called.
C7_Witness_DelayedTaskRan ==
  \E id \in Tasks :
    /\ tasks[id].startTime > ghost[id].schedAt
    /\ ghost[id].invoked > 0

\* C8: every task unstable_scheduleCallback returns has startTime = now +
\* delay when delay is a number > 0 and startTime = now otherwise, and
\* expirationTime = startTime + timeout, the timeout being -1 (Immediate),
\* 250 (UserBlocking), 5000 (Normal), 10000 (Low), 1073741823 (Idle), which
\* increase in that order.
C8_StartAndExpiration ==
  \A id \in Tasks :
    LET claimed == [p \in PriorityLevels |->
                      CASE p = ImmediatePriority -> -1
                        [] p = UserBlockingPriority -> 250
                        [] p = NormalPriority -> 5000
                        [] p = LowPriority -> 10000
                        [] p = IdlePriority -> 1073741823]
    IN  /\ tasks[id].startTime =
             IF ghost[id].delay # undefined /\ ghost[id].delay > 0
             THEN ghost[id].schedAt + ghost[id].delay
             ELSE ghost[id].schedAt
        /\ tasks[id].expirationTime =
             tasks[id].startTime + claimed[tasks[id].priorityLevel]
        /\ timeoutOf(ImmediatePriority) < timeoutOf(UserBlockingPriority)
        /\ timeoutOf(UserBlockingPriority) < timeoutOf(NormalPriority)
        /\ timeoutOf(NormalPriority) < timeoutOf(LowPriority)
        /\ timeoutOf(LowPriority) < timeoutOf(IdlePriority)

\* C8 witness: an Idle task scheduled with a delay at a later time, next to
\* a task scheduled without options.
C8_Witness_IdleDelayed ==
  \E id \in Tasks, other \in Tasks :
    /\ tasks[id].priorityLevel = IdlePriority
    /\ ghost[id].delay > 0
    /\ ghost[id].schedAt > 0
    /\ ghost[other].delay = undefined

\* The level in force outside every unstable_runWithPriority call.
BaseLevel == NormalPriority

\* The level the frame's caller asked for, as the scheduler understands it:
\* one of the five levels, or NormalPriority for anything else.
AskedLevel(frame) ==
  IF frame.level \in PriorityLevels THEN frame.level ELSE NormalPriority

\* C9 as stated: while fn runs, unstable_getCurrentPriorityLevel() returns
\* the level that was passed.
C9_Original_LevelAsPassed ==
  frames # <<>> => unstable_getCurrentPriorityLevel = frames[Len(frames)].level

\* C9 (amended): unstable_runWithPriority(level, fn) makes
\* unstable_getCurrentPriorityLevel() return level while fn runs when level
\* is one of the five priority levels, and NormalPriority for any other
\* level; it returns fn's return value; and it restores currentPriorityLevel
\* to its value before the call when fn returns and when fn throws, nested
\* calls restoring in LIFO order (after an inner call ends, the level is the
\* one the enclosing call set, and the base level after the outermost).
C9_LevelSetAndRestored ==
  /\ unstable_getCurrentPriorityLevel =
       IF frames = <<>> THEN BaseLevel ELSE AskedLevel(frames[Len(frames)])
  /\ \A i \in 1..Len(frames) :
       frames[i].previousPriorityLevel =
         IF i = 1 THEN BaseLevel ELSE AskedLevel(frames[i - 1])
  /\ lastReturn.outcome = "return" => lastReturn.value = lastReturn.handler

\* C9 witness: an inner call has just ended by a throw inside two enclosing
\* calls that run at different levels, none of them the base level.
C9_Witness_InnerThrewNested ==
  /\ lastReturn.outcome = "throw"
  /\ lastReturn.depth = Len(frames) + 1
  /\ Len(frames) = 2
  /\ AskedLevel(frames[1]) # AskedLevel(frames[2])
  /\ AskedLevel(frames[1]) # BaseLevel
  /\ AskedLevel(frames[2]) # BaseLevel

\* Task id's callback is called in this step.
InvokedIn(id) == ghost'[id].invoked > ghost[id].invoked

\* Tasks a and b are both in the ready queue and a expires first.
ReadyBefore(a, b) ==
  /\ a \in Ready
  /\ b \in Ready
  /\ tasks[a].expirationTime < tasks[b].expirationTime

\* C10 as stated: with A and B both in the ready queue and A expiring first,
\* B's callback is called only once A has completed or was cancelled.
C10_Original_CompletedOrCancelled ==
  [][\A a \in Tasks, b \in Tasks :
       (ReadyBefore(a, b) /\ InvokedIn(b)) =>
         ghost'[a].fate \in {"completed", "cancelled"}]_vars

\* C10 (amended): for two tasks A and B both in the ready queue with
\* A.expirationTime < B.expirationTime, B's callback is not called until A
\* has completed (its callback returned a non-function, possibly after
\* continuations), was cancelled, or its callback threw.
C10_EarlierTaskSettledFirst ==
  [][\A a \in Tasks, b \in Tasks :
       (ReadyBefore(a, b) /\ InvokedIn(b)) =>
         ghost'[a].fate \in {"completed", "cancelled", "threw"}]_vars

\* C10 witness: B's callback runs after A, which expired first and returned
\* a continuation once, has completed.
C10_Witness_LaterTaskAfterContinuation ==
  /\ pc = "callback"
  /\ \E a \in Tasks :
       /\ a # currentTask
       /\ tasks[a].expirationTime < tasks[currentTask].expirationTime
       /\ ghost[a].fate = "completed"
       /\ ghost[a].invoked = MaxCont + 1
       /\ ghost[currentTask].schedAt <= lastInvoke.currentTime

SeqToSet(s) == {s[i] : i \in 1..Len(s)}
NoRepeat(s) == \A i, j \in 1..Len(s) : i # j => s[i] # s[j]

\* The slots of the new description, an array's or the single child's.
NewSlots == IF newChild.kind = "array" THEN newChild.children ELSE <<newChild>>

\* The slot numbers, counted from 0, of the slots that are not empty.
RECURSIVE FilledFrom(_)
FilledFrom(i) ==
  IF i > Len(NewSlots)
  THEN <<>>
  ELSE (IF NewSlots[i].kind \in {"element", "text"} THEN <<i - 1>> ELSE <<>>)
       \o FilledFrom(i + 1)

Filled == FilledFrom(1)

\* Fiber f is a fiber for slot: a text fiber for text, else a fiber with the
\* element's key and type.
FiberFor(f, slot) ==
  /\ fibers[f].key = slot.key
  /\ fibers[f].elementType = slot.type
  /\ fibers[f].tag = IF slot.kind = "text" THEN HostText ELSE HostComponent

Reconciled == phase = "render"
Tracking == phase = "render" /\ shouldTrackSideEffects

\* C12: every node of the sibling list reconcileChildFibers or
\* mountChildFibers returns has its return pointer equal to the returnFiber
\* argument and its index equal to its position in the new description: the
\* array slot number, empty slots counted, for array children, and 0 for a
\* single element or text child.
C12_ReturnAndIndex ==
  Reconciled =>
    /\ Len(Produced) <= Len(Filled)
    /\ \A k \in 1..Len(Produced) :
         /\ fibers[Produced[k]].return = TheReturnFiber
         /\ fibers[Produced[k]].index = Filled[k]
         /\ FiberFor(Produced[k], NewSlots[Filled[k] + 1])
         /\ newChild.kind # "array" => fibers[Produced[k]].index = 0

\* C12 witness: an array with an empty slot in front of a reused child that
\* stood at another index, and a single child reused from a later position.
C12_Witness_ReusedAfterEmptySlot ==
  /\ Reconciled
  /\ newChild.kind = "array"
  /\ \E k \in 1..Len(Produced) :
       /\ fibers[Produced[k]].alternate # NULL
       /\ fibers[Produced[k]].index > k - 1
       /\ fibers[fibers[Produced[k]].alternate].index # fibers[Produced[k]].index

\* C13: for array children the sibling chain reconcileChildrenArray returns
\* holds exactly one node for each new slot that is not null, undefined or
\* boolean, in increasing slot order, and the last node's sibling is null,
\* whatever the old list was.
C13_OneNodePerFilledSlot ==
  (Reconciled /\ newChild.kind = "array") =>
    /\ Len(Produced) = Len(Filled)
    /\ NoRepeat(Produced)
    /\ \A k \in 1..Len(Produced) :
         /\ Produced[k] > Len(OldChildren)
         /\ k <= Len(Filled) => FiberFor(Produced[k], NewSlots[Filled[k] + 1])
         /\ k < Len(Produced) =>
              fibers[Produced[k]].index < fibers[Produced[k + 1]].index
    /\ Produced # <<>> => fibers[Produced[Len(Produced)]].sibling = NULL
    /\ Produced = <<>> => resultingFirstChild = NULL

\* C13 witness: an array with an empty slot between two children, the last of
\* them reused from an old fiber that had a sibling.
C13_Witness_LastReusedHadSibling ==
  /\ Reconciled
  /\ newChild.kind = "array"
  /\ Len(Produced) = 2
  /\ Len(NewSlots) = 3
  /\ NewSlots[2].kind = "empty"
  /\ fibers[Produced[2]].alternate # NULL
  /\ fibers[fibers[Produced[2]].alternate].sibling # NULL

\* The keys of the old list and of the new list's non-empty slots.
OldKeys == [i \in 1..Len(OldChildren) |-> fibers[OldChildren[i]].key]
NewKeys == [k \in 1..Len(Filled) |-> NewSlots[Filled[k] + 1].key]
UniqueKeys(keys) == NoRepeat(keys) /\ nullKey \notin SeqToSet(keys)

\* The produced nodes that reuse old fiber o, and o's places in the parent's
\* effect list.
ReusedBy(o) == {k \in 1..Len(Produced) : fibers[Produced[k]].alternate = o}
DeletedAt(o) == {i \in 1..Len(Effects) : Effects[i] = o}

Reused(o) ==
  /\ Cardinality(ReusedBy(o)) = 1
  /\ DeletedAt(o) = {}
  /\ fibers[o].flags # Deletion

Deleted(o) ==
  /\ ReusedBy(o) = {}
  /\ Cardinality(DeletedAt(o)) = 1
  /\ fibers[o].flags = Deletion

\* C14: in tracking mode, for an old and a new list with unique keys, every
\* old node is either reused by exactly one produced node (the produced
\* node's alternate is the old node) or flagged Deletion and appended to the
\* parent's effect list exactly once, never both and never neither, and no
\* old node is reused twice.
C14_ReusedOrDeletedOnce ==
  (Tracking /\ newChild.kind = "array"
     /\ UniqueKeys(OldKeys) /\ UniqueKeys(NewKeys)) =>
    /\ \A i \in 1..Len(OldChildren) :
         LET o == OldChildren[i]
         IN  /\ Reused(o) \/ Deleted(o)
             /\ ~(Reused(o) /\ Deleted(o))
    /\ SeqToSet(Effects) \subseteq SeqToSet(OldChildren)
    /\ Effects # <<>> => returnFiber.lastEffect = Effects[Len(Effects)]
    /\ Effects = <<>> => returnFiber.lastEffect = NULL

\* C14 witness: three old nodes with unique keys met by a new list that
\* moves one of them, drops another and brings a new key.
C14_Witness_MovedDroppedAndNew ==
  /\ Tracking
  /\ newChild.kind = "array"
  /\ UniqueKeys(OldKeys)
  /\ UniqueKeys(NewKeys)
  /\ Len(OldChildren) = 3
  /\ \E i \in 1..3 : Deleted(OldChildren[i])
  /\ \E k \in 1..Len(Produced) : fibers[Produced[k]].alternate = NULL
  /\ \E k \in 1..Len(Produced) :
       /\ fibers[Produced[k]].alternate # NULL
       /\ fibers[Produced[k]].flags = Placement

\* The reconciled lists are previous [a, b, c] and new [c, a, b], the new
\* elements of the types the old fibers have.
RotatedABC ==
  /\ Tracking
  /\ newChild.kind = "array"
  /\ OldKeys = <<"a", "b", "c">>
  /\ \A i \in 1..3 : fibers[OldChildren[i]].index = i - 1
  /\ Len(NewSlots) = 3
  /\ NewKeys = <<"c", "a", "b">>
  /\ NewSlots[1].type = fibers[OldChildren[3]].elementType
  /\ NewSlots[2].type = fibers[OldChildren[1]].elementType
  /\ NewSlots[3].type = fibers[OldChildren[2]].elementType

\* The largest old index among the reused nodes placed before call k without
\* being moved, 0 when there is none.
RECURSIVE LargestKept(_)
LargestKept(k) ==
  IF k = 0
  THEN 0
  ELSE LET call == placed[k]
           alt == fibers[call.fiber].alternate
           before == LargestKept(k - 1)
       IN  IF alt # NULL /\ fibers[call.fiber].flags # Placement
                /\ fibers[alt].index > before
           THEN fibers[alt].index
           ELSE before

\* C15: in tracking mode placeChild flags a reused node Placement exactly
\* when its old index is less than lastPlacedIndex (the largest old index
\* among the reused nodes already placed without moving, initially 0) and
\* then leaves lastPlacedIndex unchanged; otherwise the node is not flagged
\* and lastPlacedIndex becomes its old index; a node with no alternate is
\* always flagged Placement. For previous [a, b, c] and new [c, a, b], c is
\* not flagged and a and b are.
C15_PlacementByOldIndex ==
  Tracking =>
    /\ \A k \in 1..Len(placed) :
         LET call == placed[k]
             alt == fibers[call.fiber].alternate
             flagged == fibers[call.fiber].flags = Placement
         IN  /\ call.lastPlacedIndex = LargestKept(k - 1)
             /\ call.fiber \in SeqToSet(Produced)
             /\ alt = NULL =>
                  flagged /\ call.returned = call.lastPlacedIndex
             /\ alt # NULL =>
                  /\ flagged <=> fibers[alt].index < call.lastPlacedIndex
                  /\ flagged => call.returned = call.lastPlacedIndex
                  /\ ~flagged => call.returned = fibers[alt].index
    /\ newChild.kind = "array" => Len(placed) = Len(Produced)
    /\ RotatedABC =>
         /\ fibers[Produced[1]].flags = NoFlags
         /\ fibers[Produced[2]].flags = Placement
         /\ fibers[Produced[3]].flags = Placement

\* C15 witness: a list where one reused node is moved, a later reused node
\* stays, and a node without alternate is placed.
C15_Witness_MovedKeptAndFresh ==
  /\ Tracking
  /\ Len(placed) = 3
  /\ fibers[placed[1].fiber].alternate # NULL
  /\ placed[1].returned > 0
  /\ \E k \in 2..3 :
       /\ fibers[placed[k].fiber].alternate # NULL
       /\ fibers[placed[k].fiber].flags = Placement
  /\ \E k \in 2..3 : fibers[placed[k].fiber].alternate = NULL

\* C16 as stated: previous [a, b, c] against new [c, a, b] flags exactly one
\* produced node Placement.
C16_Original_OneMoved ==
  RotatedABC =>
    Cardinality({k \in 1..Len(Produced) :
                   fibers[Produced[k]].flags = Placement}) = 1

\* C16: reconciling previous [a, b, c] against new [c, a, b] (same keys,
\* same types) in tracking mode flags exactly two produced nodes Placement,
\* a and b; c, the first placed, is not flagged.
C16_RotationMovesTwo ==
  RotatedABC =>
    /\ Len(Produced) = 3
    /\ {k \in 1..Len(Produced) : fibers[Produced[k]].flags = Placement}
         = {2, 3}
    /\ \A k \in 1..3 : fibers[Produced[k]].alternate # NULL
    /\ Effects = <<>>

\* C16 witness: previous [a, b, c] reconciled against new [c, a, b].
C16_Witness_Rotated ==
  /\ RotatedABC
  /\ fibers[Produced[1]].alternate = OldChildren[3]

\* The old list is keyed: every old fiber is an element's fiber with a key.
KeyedOld ==
  /\ OldChildren # <<>>
  /\ nullKey \notin SeqToSet(OldKeys)

\* The first n non-empty new slots are keyed elements with the keys and the
\* types of the first n old fibers, in the old order.
SameAsOldUpTo(n) ==
  /\ n <= Len(OldChildren)
  /\ n <= Len(Filled)
  /\ \A k \in 1..n :
       /\ NewSlots[Filled[k] + 1].kind = "element"
       /\ NewSlots[Filled[k] + 1].key = fibers[OldChildren[k]].key
       /\ NewSlots[Filled[k] + 1].type = fibers[OldChildren[k]].elementType

\* The old fibers stand at indexes 0, 1, ... and the new array has no empty
\* slot.
Dense ==
  /\ \A i \in 1..Len(OldChildren) : fibers[OldChildren[i]].index = i - 1
  /\ Len(Filled) = Len(NewSlots)

\* A keyed old list the reconciler supports: its keys are unique, or, with
\* a key repeated, old fibers and new children stand slot against slot.
KeyedList ==
  /\ Tracking
  /\ newChild.kind = "array"
  /\ KeyedOld
  /\ UniqueKeys(OldKeys) \/ Dense

\* The first n produced nodes reuse the first n old fibers and are not
\* flagged.
ReusedInPlaceUpTo(n) ==
  /\ n <= Len(Produced)
  /\ \A k \in 1..n :
       /\ fibers[Produced[k]].alternate = OldChildren[k]
       /\ fibers[Produced[k]].flags = NoFlags

NoDeletion ==
  /\ Effects = <<>>
  /\ returnFiber.firstEffect = NULL
  /\ \A i \in 1..Len(OldChildren) : fibers[OldChildren[i]].flags # Deletion

SameKeyAt == {i \in 1..Len(OldChildren) : OldKeys[i] = newChild.key}
FirstSameKey == CHOOSE i \in SameKeyAt : \A j \in SameKeyAt : i <= j

\* The old fibers but the one at place keep are deleted, in sibling order.
AllDeletedBut(keep) ==
  /\ \A i \in 1..Len(OldChildren) :
       IF i = keep
       THEN DeletedAt(OldChildren[i]) = {}
            /\ fibers[OldChildren[i]].flags # Deletion
       ELSE Deleted(OldChildren[i])
  /\ \A i, j \in 1..Len(Effects) :
       i < j => Effects[i] < Effects[j]
  /\ SeqToSet(Effects) \subseteq SeqToSet(OldChildren)

\* C20: for a single element in tracking mode reconcileSingleElement scans
\* the old siblings in order and the first old node with the element's key
\* decides: if its type matches it is the only old node reused and every
\* other old sibling is flagged Deletion; if no old node has the key, all
\* old siblings are flagged Deletion and a fresh node is returned. (If the
\* first node with the key has another type, all are deleted too and the
\* node is fresh.)
C20_FirstSameKeyDecides ==
  (Tracking /\ newChild.kind = "element") =>
    /\ Len(Produced) = 1
    /\ FiberFor(Produced[1], newChild)
    /\ IF SameKeyAt # {}
          /\ fibers[OldChildren[FirstSameKey]].elementType = newChild.type
       THEN /\ fibers[Produced[1]].alternate = OldChildren[FirstSameKey]
            /\ AllDeletedBut(FirstSameKey)
       ELSE /\ fibers[Produced[1]].alternate = NULL
            /\ AllDeletedBut(0)

\* C20 witness: three old siblings, the second the first with the element's
\* key and of its type, the third with the same key too.
C20_Witness_SecondOfThreeReused ==
  /\ Tracking
  /\ newChild.kind = "element"
  /\ Len(OldChildren) = 3
  /\ SameKeyAt = {2, 3}
  /\ fibers[Produced[1]].alternate = OldChildren[2]
  /\ Len(Effects) = 2

\* C21: for a single element child whose key equals an old child's key but
\* whose type differs, the old node and all its later siblings are flagged
\* Deletion, and the returned node is freshly created, with alternate null,
\* and flagged Placement; the old node is never reused.
C21_OtherTypeReplaces ==
  (Tracking /\ newChild.kind = "element" /\ SameKeyAt # {}
     /\ fibers[OldChildren[FirstSameKey]].elementType # newChild.type) =>
    /\ Len(Produced) = 1
    /\ fibers[Produced[1]].alternate = NULL
    /\ fibers[Produced[1]].flags = Placement
    /\ Produced[1] \notin SeqToSet(OldChildren)
    /\ \A i \in FirstSameKey..Len(OldChildren) : Deleted(OldChildren[i])
    /\ \A i \in 1..Len(OldChildren) : ReusedBy(OldChildren[i]) = {}

\* C21 witness: the first of two old siblings has the element's key and
\* another type.
C21_Witness_HeadOfOtherType ==
  /\ Tracking
  /\ newChild.kind = "element"
  /\ Len(OldChildren) = 2
  /\ SameKeyAt = {1}
  /\ newChild.key # nullKey
  /\ fibers[OldChildren[1]].elementType # newChild.type
  /\ fibers[OldChildren[1]].tag = HostComponent
  /\ Len(Effects) = 2

\* C22: for a string or number child reconcileSingleTextNode reuses the old
\* head only when the old head is a text node, and then all later old
\* siblings are deleted; otherwise every old sibling, the head included, is
\* flagged Deletion and a fresh text node flagged Placement is returned.
C22_TextReusesTextHead ==
  (Tracking /\ newChild.kind = "text") =>
    /\ Len(Produced) = 1
    /\ fibers[Produced[1]].tag = HostText
    /\ IF OldChildren # <<>> /\ fibers[OldChildren[1]].tag = HostText
       THEN /\ fibers[Produced[1]].alternate = OldChildren[1]
            /\ fibers[Produced[1]].flags = NoFlags
            /\ AllDeletedBut(1)
       ELSE /\ fibers[Produced[1]].alternate = NULL
            /\ fibers[Produced[1]].flags = Placement
            /\ AllDeletedBut(0)

\* C22 witness: a text child against an old list whose head is an element
\* and whose second node is a text node.
C22_Witness_TextBehindElement ==
  /\ Tracking
  /\ newChild.kind = "text"
  /\ Len(OldChildren) = 2
  /\ fibers[OldChildren[1]].tag = HostComponent
  /\ fibers[OldChildren[2]].tag = HostText
  /\ Len(Effects) = 2

\* C23: when newChild is null or a boolean, reconcileChildFibers in tracking
\* mode flags every old sibling Deletion, each appended once to the parent's
\* effect list, and returns null: no children are produced.
C23_EmptyDeletesAll ==
  (Tracking /\ newChild.kind = "empty") =>
    /\ resultingFirstChild = NULL
    /\ Produced = <<>>
    /\ AllDeletedBut(0)
    /\ Effects = OldChildren
    /\ Len(fibers) = Len(OldChildren)

\* C23 witness: an empty child against three old siblings.
C23_Witness_ThreeDeleted ==
  /\ Tracking
  /\ newChild.kind = "empty"
  /\ Len(OldChildren) = 3
  /\ Len(Effects) = 3

\* The parent's effect list and the old children are as the last commit
\* left them, and no fiber was created.
NothingRecorded ==
  /\ returnFiber.firstEffect = NULL
  /\ returnFiber.lastEffect = NULL
  /\ Len(fibers) = Len(OldChildren)
  /\ \A i \in 1..Len(fibers) :
       fibers[i].flags = NoFlags /\ fibers[i].nextEffect = NULL

ComponentTags ==
  {ClassComponent, FunctionComponent, ForwardRef, SimpleMemoComponent, Block}

\* C24 as stated: an undefined child under any class, function, forward-ref,
\* simple-memo or block parent raises 'Nothing was returned from render'.
C24_Original_EveryComponentRaises ==
  (Reconciled /\ newChild.kind = "undefined"
     /\ returnFiber.tag \in ComponentTags) =>
    thrown = NothingReturned

\* C24: when newChild is undefined and the parent is a function, forward-ref,
\* simple-memo or block component, or a class component whose render is not
\* an auto-mock of a development build, reconcileChildFibers raises 'Nothing
\* was returned from render' instead of treating the child as empty, and it
\* raises before any Deletion is recorded: the parent's effect list and the
\* old children's flags are unchanged. Under a class whose render is an
\* auto-mock the child is treated as empty.
C24_UndefinedRaisesFirst ==
  (Reconciled /\ newChild.kind = "undefined") =>
    IF /\ returnFiber.tag \in ComponentTags
       /\ ~(returnFiber.tag = ClassComponent /\ returnFiber.mockedRender)
    THEN /\ thrown = NothingReturned
         /\ resultingFirstChild = NULL
         /\ NothingRecorded
    ELSE /\ thrown = NoError
         /\ resultingFirstChild = NULL
         /\ Tracking => Effects = OldChildren

\* C24 witness: a class component with two children renders undefined.
C24_Witness_ClassRendersUndefined ==
  /\ Tracking
  /\ newChild.kind = "undefined"
  /\ returnFiber.tag = ClassComponent
  /\ ~returnFiber.mockedRender
  /\ Len(OldChildren) = 2
  /\ thrown = NothingReturned

\* The new description is or holds an object that is no valid child.
HasInvalidObject == \E i \in 1..Len(NewSlots) : NewSlots[i].kind = "object"

\* C25 as stated: an object that is no valid child makes the diff raise
\* under every parent.
C25_Original_EveryParentRaises ==
  (Reconciled /\ HasInvalidObject) => thrown = InvalidChild

\* C25: a child that is a non-null object with no recognized discriminator
\* and neither array nor iterable makes the diff raise the invalid-child-type
\* error, as the top-level newChild and as a slot of an array, in every pass
\* of the array diff, for every parent whose type is not 'textarea'; under a
\* textarea parent nothing is raised and the object counts as empty.
C25_InvalidObjectRaises ==
  (Reconciled /\ HasInvalidObject) =>
    IF returnFiber.type # "textarea"
    THEN thrown = InvalidChild /\ resultingFirstChild = NULL
    ELSE /\ thrown = NoError
         /\ Len(Produced) = Len(Filled)

\* C25 witness: the object is met by the map pass, behind a slot the forward
\* pass could not match and the map pass created.
C25_Witness_RaisedInMapPass ==
  /\ Tracking
  /\ thrown = InvalidChild
  /\ newChild.kind = "array"
  /\ Len(NewSlots) = 3
  /\ NewSlots[1].kind = "element"
  /\ NewSlots[2].kind = "empty"
  /\ NewSlots[3].kind = "object"
  /\ Len(OldChildren) = 2
  /\ fibers[OldChildren[1]].tag = HostText
  /\ Len(fibers) = 3

\* The pairs of new slots, the earlier first, that are elements with the
\* same key.
DuplicatedKeys ==
  {pair \in (1..Len(Filled)) \X (1..Len(Filled)) :
     /\ pair[1] < pair[2]
     /\ NewKeys[pair[1]] # nullKey
     /\ NewKeys[pair[1]] = NewKeys[pair[2]]}

\* The old fiber, if any, that stands at the index of the k-th non-empty new
\* slot.
OldAtSlotOf(k) ==
  {o \in SeqToSet(OldChildren) : fibers[o].index = Filled[k]}

\* C26 as stated: with a key duplicated in the new array the diff completes
\* without error and the second element with the key is matched by its slot
\* index: it reuses the old fiber of its type that stands at that index.
C26_Original_SecondMatchedByPosition ==
  (Tracking /\ newChild.kind = "array" /\ thrown = NoError) =>
    \A pair \in DuplicatedKeys :
      \A o \in OldAtSlotOf(pair[2]) :
        fibers[o].elementType = NewSlots[Filled[pair[2]] + 1].type =>
          /\ pair[2] <= Len(Produced)
          /\ fibers[Produced[pair[2]]].alternate = o

\* C26: when the new children array contains two elements with the same
\* key, the array diff raises no error and still completes, and the second
\* element with the key is matched by the key like any other, never by its
\* slot index: it reuses an old fiber only if that fiber has its key, and
\* no old fiber is reused by both.
C26_DuplicateStillMatchedByKey ==
  (Tracking /\ newChild.kind = "array" /\ DuplicatedKeys # {}) =>
    /\ thrown = NoError
    /\ Len(Produced) = Len(Filled)
    /\ \A k \in 1..Len(Produced) :
         /\ FiberFor(Produced[k], NewSlots[Filled[k] + 1])
         /\ fibers[Produced[k]].alternate # NULL =>
              fibers[fibers[Produced[k]].alternate].key = NewKeys[k]
    /\ \A pair \in DuplicatedKeys :
         \/ fibers[Produced[pair[2]]].alternate = NULL
         \/ fibers[Produced[pair[2]]].alternate
              # fibers[Produced[pair[1]]].alternate

\* C26 witness: old [a, b] against new [a, a] of the old types: the second a
\* does not take the fiber of b at its index, it is created.
C26_Witness_SecondCreated ==
  /\ Tracking
  /\ newChild.kind = "array"
  /\ OldKeys = <<"a", "b">>
  /\ NewKeys = <<"a", "a">>
  /\ Len(NewSlots) = 2
  /\ fibers[OldChildren[2]].index = 1
  /\ fibers[OldChildren[2]].elementType = NewSlots[2].type
  /\ fibers[Produced[1]].alternate = OldChildren[1]
  /\ fibers[Produced[2]].alternate = NULL
  /\ Deleted(OldChildren[2])

\* What reconcileChildFibers (track) or mountChildFibers (not track) makes of
\* the current children and child.
ReconciledBy(track, child) ==
  reconcileChildFibers(HeapOf(track), returnFiber.child, child)

\* The lists of t (tracking) and m (not tracking) have the same keys, types,
\* tags, indexes and reused old fibers; m has no flag set and the parent's
\* effect list as it was.
SameButUnflagged(t, m) ==
  LET ct == Siblings(t.h.fibers, t.fiber)
      cm == Siblings(m.h.fibers, m.fiber)
  IN  /\ Len(ct) = Len(cm)
      /\ \A k \in 1..Len(ct) :
           /\ t.h.fibers[ct[k]].key = m.h.fibers[cm[k]].key
           /\ t.h.fibers[ct[k]].elementType = m.h.fibers[cm[k]].elementType
           /\ t.h.fibers[ct[k]].tag = m.h.fibers[cm[k]].tag
           /\ t.h.fibers[ct[k]].index = m.h.fibers[cm[k]].index
           /\ t.h.fibers[ct[k]].alternate = m.h.fibers[cm[k]].alternate
      /\ \A f \in 1..Len(m.h.fibers) : m.h.fibers[f].flags = NoFlags
      /\ m.h.returnFiber = returnFiber

NewOrder == [k \in 1..Len(Produced) |-> stateNode(fibers, Produced[k])]

C28_HostOrderIsNewOrder ==
  /\ (phase = "render" /\ thrown = NoError) => committedChildren = NewOrder
  /\ phase = "idle" => hostChildren = [i \in 1..Len(fibers) |-> i]

\* A commit that removes a node, moves one and inserts a new one in front of
\* a node that stays.
C28_Witness_DeleteMoveInsert ==
  /\ phase = "render"
  /\ Tracking
  /\ thrown = NoError
  /\ Effects # <<>>
  /\ \E f \in SeqToSet(Produced) :
       /\ fibers[f].flags = Placement
       /\ fibers[f].alternate # NULL
  /\ \E f \in SeqToSet(Produced) :
       /\ fibers[f].flags = Placement
       /\ fibers[f].alternate = NULL
       /\ getHostSibling(fibers, f) # NULL
  /\ committedChildren = NewOrder
  /\ committedChildren # hostChildren

\* The effect list of a heap.
RECURSIVE EffectsOf(_, _, _)
EffectsOf(h, first, fuel) ==
  IF first = NULL \/ fuel = 0
  THEN <<>>
  ELSE <<first>> \o EffectsOf(h, h.fibers[first].nextEffect, fuel - 1)

\* deleteChild(h, c) in tracking mode puts c at the tail of the effect list.
AppendsAtTail(h, c) ==
  LET d == deleteChild(h, c)
      before == EffectsOf(h, h.returnFiber.firstEffect, Len(h.fibers) + 1)
      after == EffectsOf(d, d.returnFiber.firstEffect, Len(d.fibers) + 1)
  IN  /\ after = Append(before, c)
      /\ d.returnFiber.lastEffect = c
      /\ d.fibers[c].flags = Deletion
      /\ IF h.returnFiber.lastEffect = NULL
         THEN d.returnFiber.firstEffect = c
         ELSE /\ d.returnFiber.firstEffect = h.returnFiber.firstEffect
              /\ d.fibers[h.returnFiber.lastEffect].nextEffect = c

\* No key is carried by two old fibers.
NoOldKeyTwice ==
  \A i, j \in 1..Len(OldChildren) :
    (i # j /\ OldKeys[i] # nullKey) => OldKeys[i] # OldKeys[j]

\* C29: in tracking mode deleteChild appends the deleted node at the tail of
\* the parent's effect list (into an empty list as first and last effect,
\* otherwise behind the previous tail, which becomes the node's
\* predecessor), and after a diff that began with an empty effect list the
\* list holds exactly the old nodes flagged Deletion, each once, in the order
\* they were identified (the old sibling order when no old key comes twice),
\* and none of the produced nodes.
C29_DeletionsAppendedInOrder ==
  /\ \A c \in 1..Len(fibers) :
       c \notin SeqToSet(Effects) => AppendsAtTail(HeapOf(TRUE), c)
  /\ Tracking =>
       /\ SeqToSet(Effects) = {f \in 1..Len(fibers) : fibers[f].flags = Deletion}
       /\ SeqToSet(Effects) \subseteq SeqToSet(OldChildren)
       /\ SeqToSet(Effects) \cap SeqToSet(Produced) = {}
       /\ NoRepeat(Effects)
       /\ returnFiber.lastEffect =
            IF Effects = <<>> THEN NULL ELSE Effects[Len(Effects)]
       /\ NoOldKeyTwice =>
            \A i, j \in 1..Len(Effects) : i < j => Effects[i] < Effects[j]

\* Two old nodes were deleted, one in the first pass and one from the map,
\* and a produced node is flagged Placement.
C29_Witness_TwoDeletedOnePlaced ==
  /\ Tracking
  /\ newChild.kind = "array"
  /\ Len(Effects) = 2
  /\ Effects[1] < Effects[2]
  /\ \E f \in SeqToSet(Produced) : fibers[f].flags = Placement
  /\ \E f \in SeqToSet(Produced) : fibers[f].alternate > Effects[1]

\* C30 as stated: the effect list built during diffing is circular, the
\* nextEffect of lastEffect leads back to firstEffect.
C30_Original_Circular ==
  (Tracking /\ returnFiber.lastEffect # NULL) =>
     fibers[returnFiber.lastEffect].nextEffect = returnFiber.firstEffect

\* C30: the effect list built during diffing is a singly linked list through
\* nextEffect that ends in null: following nextEffect from firstEffect
\* reaches lastEffect without passing a node twice, and the nextEffect of
\* lastEffect is null; firstEffect and lastEffect are null together.
C30_EffectListEndsInNull ==
  Tracking =>
     /\ (returnFiber.firstEffect = NULL) <=> (returnFiber.lastEffect = NULL)
     /\ returnFiber.lastEffect # NULL =>
          /\ fibers[returnFiber.lastEffect].nextEffect = NULL
          /\ Effects[1] = returnFiber.firstEffect
          /\ Effects[Len(Effects)] = returnFiber.lastEffect
          /\ Len(Effects) <= Len(OldChildren)
          /\ \A i \in 1..Len(Effects) - 1 :
               /\ fibers[Effects[i]].nextEffect = Effects[i + 1]
               /\ Effects[i] # returnFiber.lastEffect

\* An effect list of three nodes, the last with no next effect.
C30_Witness_ThreeLinked ==
  /\ Tracking
  /\ Len(Effects) = 3
  /\ returnFiber.firstEffect # returnFiber.lastEffect
  /\ fibers[returnFiber.lastEffect].nextEffect = NULL

\* The produced nodes, in the order of the new list, that reuse an old fiber
\* and are not flagged Placement.
Unmoved ==
  SelectSeq(Produced, LAMBDA f : fibers[f].alternate # NULL
                                 /\ fibers[f].flags # Placement)

\* C31: after reconcileChildrenArray in tracking mode on lists with unique
\* keys, the reused nodes that are not flagged Placement come in the new
\* list with strictly increasing old indices: the nodes that stay keep the
\* order they had in the old list.
C31_UnmovedKeepOldOrder ==
  (Tracking /\ newChild.kind = "array" /\ thrown = NoError
     /\ UniqueKeys(OldKeys) /\ UniqueKeys(NewKeys)) =>
    \A i, j \in 1..Len(Unmoved) :
      i < j => fibers[fibers[Unmoved[i]].alternate].index
                 < fibers[fibers[Unmoved[j]].alternate].index

\* Three old nodes reused in another order: two stay, one is moved.
C31_Witness_TwoStayOneMoves ==
  /\ Tracking
  /\ newChild.kind = "array"
  /\ UniqueKeys(OldKeys)
  /\ UniqueKeys(NewKeys)
  /\ Len(OldChildren) = 3
  /\ Len(Produced) = 3
  /\ Len(Unmoved) = 2
  /\ \A k \in 1..3 : fibers[Produced[k]].alternate # NULL
  /\ fibers[Produced[1]].flags # Placement
  /\ fibers[Produced[2]].flags = Placement

\* The start time of the delayed task that starts first, among ids.
EarliestStart(ids) ==
  CHOOSE t \in {tasks[i].startTime : i \in ids} :
    \A i \in ids : t <= tasks[i].startTime

\* C32: workLoop returns true if and only if the ready queue is not empty
\* when it stops; when it returns false with the delayed queue not empty, it
\* has armed one host timeout for handleTimeout, whose delay is the start
\* time of the earliest delayed task minus the current time.
C32_ReturnTellsReadyWork ==
  lastFlush.returned # "none" =>
    /\ (lastFlush.returned = "true") <=> (lastFlush.ready # {})
    /\ lastFlush.currentTime = lastFlush.now
    /\ (lastFlush.returned = "false" /\ lastFlush.delayed # {}) =>
         /\ Len(lastFlush.armed) = 1
         /\ lastFlush.armed[1].fn = "handleTimeout"
         /\ lastFlush.armed[1].at - lastFlush.now
              = EarliestStart(lastFlush.delayed) - lastFlush.currentTime
         /\ EarliestStart(lastFlush.delayed) > lastFlush.currentTime
    /\ (lastFlush.returned = "true" \/ lastFlush.delayed = {}) =>
         lastFlush.armed = <<>>

\* The work loop returned false after a callback, with a delayed task left
\* that was scheduled from inside the callback.
C32_Witness_FalseWithTimerArmed ==
  /\ lastFlush.returned = "false"
  /\ lastFlush.delayed # {}
  /\ lastFlush.currentTime > 0
  /\ Len(lastFlush.armed) = 1

\* A host callback that will call flushWork is pending: a message on the
\* port with scheduledHostCallback set, or a _flushCallback timer with
\* _callback set.
HostCallbackPending ==
  IF hostConfig = MessageChannelHost
  THEN messages > 0 /\ scheduledHostCallback = FlushWorkFn
  ELSE /\ _callback = FlushWorkFn
       /\ \E i \in 1..Len(timers) : timers[i].fn = "_flushCallback"

\* The ready tasks that were not cancelled.
ReadyWork == {i \in InHeap(taskQueue) : tasks[i].callback # NULL}

\* C34: whenever the scheduler is not inside flushWork and the ready queue
\* holds a task with a callback, a host callback that will call flushWork is
\* pending in the host adapter.
C34_NoLostWakeup ==
  (pc = "idle" /\ ReadyWork # {}) => HostCallbackPending

\* Ready work is waiting after a flush that threw, and after a flush that
\* yielded with work left.
C34_Witness_WaitingAfterThrow ==
  /\ pc = "idle"
  /\ ReadyWork # {}
  /\ HostCallbackPending
  /\ ~isHostCallbackScheduled
  /\ \E i \in 1..Len(ghost) : ghost[i].fate = "threw"

\* The armed host timeouts: the pending timers that will call handleTimeout.
ArmedTimeouts == {i \in 1..Len(timers) : timers[i].fn = "handleTimeout"}

\* C35: at most one host timeout for handleTimeout is armed at any time, and
\* isHostTimeoutScheduled is true whenever one is armed.
C35_OneHostTimeout ==
  /\ Cardinality(ArmedTimeouts) <= 1
  /\ ArmedTimeouts # {} => isHostTimeoutScheduled

\* ------------------------------------------------------------- progress
\* The scheduler with callbacks that return and tasks nobody cancels, under
\* a host that delivers what is pending and a clock that advances.
NextLive ==
  \/ ScheduleCallback
  \/ Tick
  \/ performWorkUntilDeadline
  \/ HandleTimeoutFires
  \/ _flushCallback
  \/ CallbackReturnsContinuation
  \/ CallbackReturnsOther

Fairness ==
  /\ WF_vars(Tick)
  /\ WF_vars(performWorkUntilDeadline)
  /\ WF_vars(HandleTimeoutFires)
  /\ WF_vars(_flushCallback)
  /\ WF_vars(CallbackReturnsOther)

SpecLive == Init /\ [][NextLive]_vars /\ Fairness

\* Task i was created; its callback was called.
Scheduled(i) == Len(tasks) >= i
Invoked(i) == Len(ghost) >= i /\ ghost[i].invoked > 0

\* Task i was scheduled without delay and with a finite timeout.
ReadyFinite(i) ==
  /\ Scheduled(i)
  /\ tasks[i].startTime = ghost[i].schedAt
  /\ tasks[i].priorityLevel # IdlePriority

DelayedTask(i) ==
  /\ Scheduled(i)
  /\ tasks[i].startTime > ghost[i].schedAt

\* C36: every delayed task is eventually invoked, under the MessageChannel
\* host and under the setTimeout host, when timers and messages are
\* delivered and the clock advances.
C36_DelayedTaskEventuallyInvoked ==
  \A i \in 1..MaxTasks : [](DelayedTask(i) => <>Invoked(i))

\* ------------------------------------------- the synchronous callback queue
\* The callbacks scheduled and not yet invoked, in the order scheduled.
SyncWaiting ==
  [k \in 1..(syncGhost.scheduled - Len(syncGhost.invoked)) |->
     Len(syncGhost.invoked) + k]

\* What syncQueue holds beyond the callback being run, if any.
SyncQueued ==
  IF syncQueue = nullQueue THEN <<>>
  ELSE IF syncCallback # NoCallback THEN slice(syncQueue, syncI + 1)
  ELSE syncQueue

\* A Scheduler task that flushes the queue is waiting to run.
SyncFlushScheduled == nextImmediateTask(immediateTasks) # NULL

SyncInvoked(k) == Len(syncGhost.invoked) >= k

\* C37: the callbacks of scheduleSyncCallback are invoked in the order
\* scheduled, none twice; those not yet invoked are what syncQueue holds, in
\* order, also after a callback threw and was dropped, and then the
\* Scheduler holds a task that flushes them, unless a flush is running;
\* and every scheduled callback is eventually invoked.
C37_SyncCallbacksOnceInOrder ==
  /\ [](/\ \A k \in 1..Len(syncGhost.invoked) : syncGhost.invoked[k] = k
        /\ SyncQueued = SyncWaiting
        /\ (SyncWaiting # <<>> /\ ~isFlushingSyncQueue) => SyncFlushScheduled)
  /\ \A k \in 1..MaxSync : [](syncGhost.scheduled >= k => <>SyncInvoked(k))

\* The first callback threw with two callbacks queued behind it, one of them
\* pushed during the flush; both were invoked by a later flush.
C37_Witness_FlushedAfterThrow ==
  /\ syncGhost.threw = {1}
  /\ syncGhost.invoked = <<1, 2, 3>>
  /\ syncQueue = nullQueue
  /\ \E n \in 1..Len(immediateTasks) : n > 1 /\ nextImmediateTask(immediateTasks) = NULL

\* ---------------------------------------------------------- lazy components
\* The loader is called at most once over any number of _init calls.
C38_Original_LoaderCalledOnce == lazyGhost.ctorCalls <= 1

\* C38: the status moves from Uninitialized to Pending and from there, in
\* the same call or later, to Resolved or Rejected; a Resolved or Rejected
\* payload never changes; the loader is called only while the payload is
\* Uninitialized, so that it returns at most once, and is called again only
\* after it threw; _init returns the stored default export exactly when the
\* status is then Resolved, and otherwise throws the stored result, or the
\* loader's error when the loader threw.
C38_LazyStatusMovesForward ==
  [][/\ payload'._status # payload._status =>
          \/ payload._status = Uninitialized
          \/ payload._status = Pending /\ payload'._status \in {Resolved, Rejected}
     /\ payload._status \in {Resolved, Rejected} => payload' = payload
     /\ payload'._status # Pending => payload'._result # "thenable"
     /\ lazyGhost'.ctorCalls > lazyGhost.ctorCalls =>
          /\ payload._status = Uninitialized
          /\ lazyGhost.ctorReturned = 0
     /\ lazyGhost'.ctorReturned <= 1
     /\ lazyGhost'.inits > lazyGhost.inits =>
          lazyGhost'.outcome =
            IF payload'._status = Resolved
            THEN [kind |-> "return", value |-> payload'._result]
            ELSE IF payload'._status = Uninitialized
            THEN [kind |-> "throw", value |-> "ctorError"]
            ELSE [kind |-> "throw", value |-> payload'._result]]_vars

\* The loader threw, was called again and returned; the module arrived, a
\* later settlement was ignored, and _init returned the first default export.
C38_Witness_ResolvedStays ==
  /\ lazyGhost.ctorCalls = 2
  /\ lazyGhost.ctorReturned = 1
  /\ lazyGhost.settles = 2
  /\ payload = [_status |-> Resolved, _result |-> "ComponentA"]
  /\ lazyGhost.outcome = [kind |-> "return", value |-> "ComponentA"]

\* ------------------------------------------------------ hook update queues
\* The Update objects of a circular list, first to last, given its last.
RECURSIVE UpdatesFrom(_, _, _)
UpdatesFrom(update, last, fuel) ==
  IF update = last \/ fuel = 0 THEN <<update>>
  ELSE <<update>> \o UpdatesFrom(updates[update].next, last, fuel - 1)

UpdateList(last) ==
  IF last = NULL THEN <<>>
  ELSE UpdatesFrom(updates[last].next, last, Len(updates))

\* The updates not yet applied for good: the base queue, then the pending
\* ones.
Unapplied == UpdateList(currentHook.baseQueue) \o UpdateList(queue.pending)

RECURSIVE applyAll(_, _)
applyAll(state, actions) ==
  IF actions = <<>> THEN state
  ELSE applyAll(reducer(state, Head(actions)), Tail(actions))

\* C39: the base queue followed by the pending updates holds, in dispatch
\* order, every update dispatched from the first one still skipped on (the
\* first of a committed render's base queue is one that render skipped),
\* and baseState is the reducer applied in order to the actions before them;
\* so when no update is left, memoizedState is the reducer applied to all
\* dispatched actions in dispatch order.
C39_UpdatesAppliedInDispatchOrder ==
  LET all == hookGhost.dispatched
      rest == Unapplied
      done == Len(all) - Len(rest)
  IN  /\ done >= 0
      /\ \A k \in 1..Len(rest) : updates[rest[k]].action = all[done + k]
      /\ currentHook.baseState = applyAll(initialState, SubSeq(all, 1, done))
      /\ currentHook.baseQueue # NULL =>
           ~isSubsetOfLanes(hookGhost.rendered, updates[rest[1]].lane)
      /\ rest = <<>> => currentHook.memoizedState = applyAll(initialState, all)

\* Three actions were dispatched, a render skipped the first and applied a
\* later one, and after another render nothing is left to apply.
C39_Witness_SkippedThenApplied ==
  /\ hookGhost.dispatched = <<"a", "b", "a">>
  /\ hookGhost.renders = 2
  /\ Unapplied = <<>>
  /\ currentHook.memoizedState = <<"a", "b", "a">>
  /\ \E u \in 1..Len(updates) : updates[u].lane = NoLane /\ updates[u].action = "b"

\* ------------------------------------------------------ throwing in render
\* The fibers of the return path that may capture: class components that
\* have not captured in this render and define getDerivedStateFromError or
\* a componentDidCatch that has not failed yet, and the HostRoot.
Boundaries ==
  {w \in 2..Len(returnPath) :
     \/ returnPath[w].tag = HostRoot
     \/ /\ returnPath[w].tag = ClassComponent
        /\ DidCapture \notin returnPath[w].flags
        /\ \/ returnPath[w].getDerivedStateFromError
           \/ /\ returnPath[w].instance = "componentDidCatch"
              /\ ~returnPath[w].alreadyFailed}

\* C40: throwException, given a value that is not a thenable, adds
\* Incomplete to sourceFiber's flags and empties its effect list, adds
\* ShouldCapture and one capture update to the nearest boundary of the
\* return path (the HostRoot if no class component qualifies), and leaves
\* every other fiber, above and below that one, as it was.
C40_NearestBoundaryCaptures ==
  [][(returnPath # <<>> /\ thrownValue = NoValue /\ thrownValue' # NoValue) =>
       \E c \in Boundaries :
         /\ \A w \in Boundaries : c <= w
         /\ Len(returnPath') = Len(returnPath)
         /\ returnPath'[1] =
              [returnPath[1] EXCEPT !.flags = @ \cup {Incomplete},
                                    !.firstEffect = NULL,
                                    !.lastEffect = NULL]
         /\ returnPath'[c].flags = returnPath[c].flags \cup {ShouldCapture}
         /\ Len(returnPath'[c].capturedUpdates) = 1
         /\ returnPath'[c].capturedUpdates[1].tag = CaptureUpdate
         /\ returnPath'[c].capturedUpdates[1].error = thrownValue'
         /\ \A w \in 2..Len(returnPath) :
              w # c => returnPath'[w] = returnPath[w]]_vars

\* An error passed a boundary that had captured already in this render and
\* was captured by the class component above it, which defines
\* componentDidCatch; the HostRoot is untouched.
C40_Witness_SecondBoundaryCaptures ==
  /\ thrownValue = "Error"
  /\ Len(returnPath) = 4
  /\ Incomplete \in returnPath[1].flags
  /\ returnPath[2].tag = ClassComponent
  /\ returnPath[2].flags = {DidCapture}
  /\ returnPath[2].getDerivedStateFromError
  /\ returnPath[3].flags = {ShouldCapture}
  /\ returnPath[3].instance = "componentDidCatch"
  /\ Len(returnPath[3].capturedUpdates) = 1
  /\ returnPath[4].flags = {}
  /\ returnPath[4].capturedUpdates = <<>>

====
